---- MODULE Spec2Model ----
(***************************************************************************)
(* A model of TidyImport's data cleaning engine (src/lib/cleaningEngine.ts) *)
(* and of the export module that serialises its output.                    *)
(*                                                                         *)
(* JavaScript strings are TLA+ strings: TLC evaluates Len, SubSeq, Head,   *)
(* Tail and \o on them, so every cleaner below works character by          *)
(* character as the source does.  A row is a function from column names    *)
(* to strings; a key that a row does not have reads as undefined in the    *)
(* source, and every reader modelled here treats undefined like ''         *)
(* (value ?? '', row[h]?.trim() || '', row[h] || '').                      *)
(***************************************************************************)
EXTENDS Integers, Sequences, FiniteSets, TLC

VARIABLES
  cellField,    \* cleaner harness: the target header the cell is cleaned for
  cellRaw,      \* cleaner harness: the raw cell value
  cellOut,      \* cleaner harness: results of the successive cleanCell calls
  fullName,     \* name splitter harness: the argument of splitFullName
  splitOut,     \* name splitter harness: <<>> or <<the SplitNameResult>>
  rows,         \* row processor: the raw rows of the parsed file
  mappings,     \* row processor: the HeaderMapping list
  processed,    \* row processor: <<>> or <<[data, stats] of processData>>
  dataRows,     \* validators: the cleaned rows handed to the analyzers
  warnings,     \* validators: <<>> or <<validateRows(dataRows)>>
  selected,     \* validators: <<>> or <<the selectors' row indices>>
  duplicates,   \* validators: <<>> or <<detectDuplicates(dataRows)>>
  exportData,   \* export: the rows handed to generateCSV / generateExcel
  exportFormat, \* export: "csv" or "xlsx"
  exported,     \* export: <<>> or <<the cells written, row by row>>
  birthdayFormat, \* birthday harness: the BirthdayFormat chosen
  reformatted,  \* birthday harness: results of the successive reformatBirthdays calls
  addressRow,   \* address harness: the raw row
  addressParts, \* address harness: the AddressComponent list
  addressOut,   \* address harness: <<>> or <<consolidateAddress(...)>>
  step,         \* wizard: the internal step, 1..5 (0 outside the wizard)
  parsedFile,   \* wizard: <<>> for null, or [fileName, headers, rows]
  cleanedData,  \* wizard: the working rows
  cleaningStats, \* wizard: <<>> for null, or the CleaningStats
  validations,  \* wizard: the stored RowValidation list
  rowsToSkip,   \* wizard: the set of 0-based row indices left out of the export
  resolved,     \* wizard: the eight ...Resolved flags
  addressesConsolidatedCount, \* wizard: rows combined by the address step
  originalMappings, \* hook: the stored AI suggestions
  hasBeenModified, \* hook
  customFields, \* hook: custom field names, in the order added
  addressComponents, \* hook: the detected AddressComponent list
  nameSplitColumn, \* hook: "" for null, or the combined-name column
  aiRequest,    \* <<>> or <<the body of the last map-headers request>>
  clock,        \* map-headers function: the value of Date.now()
  rateLimitMap, \* map-headers function: ip -> <<>> or <<[count, resetAt]>>
  rateOut       \* map-headers function: <<>> or <<[ip, status] of the last request>>

cellVars == <<cellField, cellRaw, cellOut>>
splitVars == <<fullName, splitOut>>
processVars == <<rows, mappings, processed>>
validateVars == <<dataRows, warnings, selected, duplicates>>
exportVars == <<exportData, exportFormat, exported>>
birthdayVars == <<birthdayFormat, reformatted>>
addressVars == <<addressRow, addressParts, addressOut>>
wizardVars ==
  <<step, parsedFile, cleanedData, cleaningStats, validations, rowsToSkip,
    resolved, addressesConsolidatedCount, originalMappings, hasBeenModified,
    customFields, addressComponents, nameSplitColumn, aiRequest>>
rateVars == <<clock, rateLimitMap, rateOut>>
vars == <<cellVars, splitVars, processVars, validateVars, exportVars,
          birthdayVars, addressVars, wizardVars, rateVars>>

\* a harness that a specification does not use stays idle
IdleCell == cellField = "" /\ cellRaw = "" /\ cellOut = <<>>
IdleSplit == fullName = "" /\ splitOut = <<>>
IdleProcess == rows = <<>> /\ mappings = <<>> /\ processed = <<>>
IdleValidate == dataRows = <<>> /\ warnings = <<>> /\ selected = <<>> /\ duplicates = <<>>
IdleExport == exportData = <<>> /\ exportFormat = "" /\ exported = <<>>
IdleBirthday == birthdayFormat = "" /\ reformatted = <<>>
IdleAddress == addressRow = <<>> /\ addressParts = <<>> /\ addressOut = <<>>
IdleWizard ==
  /\ step = 0 /\ parsedFile = <<>> /\ cleanedData = <<>> /\ cleaningStats = <<>>
  /\ validations = <<>> /\ rowsToSkip = {} /\ resolved = <<>>
  /\ addressesConsolidatedCount = 0 /\ originalMappings = <<>>
  /\ hasBeenModified = FALSE /\ customFields = <<>> /\ addressComponents = <<>>
  /\ nameSplitColumn = "" /\ aiRequest = <<>>
IdleRate == clock = 0 /\ rateLimitMap = <<>> /\ rateOut = <<>>

(***************************************************************************)
(* Strings                                                                 *)
(***************************************************************************)
CharAt(s, i) == SubSeq(s, i, i)

UPPER_LETTERS == "ABCDEFGHIJKLMNOPQRSTUVWXYZ"
LOWER_LETTERS == "abcdefghijklmnopqrstuvwxyz"
DIGIT_CHARS == "0123456789"

CharsOf(s) == { CharAt(s, i) : i \in 1..Len(s) }

\* \s of a JavaScript regular expression and the characters trim() removes
Whitespace == {" ", "\t", "\n", "\r"}
\* \d
Digits == CharsOf(DIGIT_CHARS)
\* [a-zA-Z]
Letters == CharsOf(UPPER_LETTERS) \cup CharsOf(LOWER_LETTERS)

ToLowerChar ==
  [c \in CharsOf(UPPER_LETTERS) |->
     CharAt(LOWER_LETTERS, CHOOSE i \in 1..Len(UPPER_LETTERS) : CharAt(UPPER_LETTERS, i) = c)]

ToUpperChar ==
  [c \in CharsOf(LOWER_LETTERS) |->
     CharAt(UPPER_LETTERS, CHOOSE i \in 1..Len(LOWER_LETTERS) : CharAt(LOWER_LETTERS, i) = c)]

LowerChar(c) == IF c \in DOMAIN ToLowerChar THEN ToLowerChar[c] ELSE c
UpperChar(c) == IF c \in DOMAIN ToUpperChar THEN ToUpperChar[c] ELSE c

RECURSIVE ToLowerCase(_)
ToLowerCase(s) ==
  IF s = "" THEN "" ELSE LowerChar(Head(s)) \o ToLowerCase(Tail(s))

RECURSIVE TrimStart(_)
TrimStart(s) ==
  IF s # "" /\ Head(s) \in Whitespace THEN TrimStart(Tail(s)) ELSE s

RECURSIVE TrimEnd(_)
TrimEnd(s) ==
  IF s # "" /\ CharAt(s, Len(s)) \in Whitespace
    THEN TrimEnd(SubSeq(s, 1, Len(s) - 1))
    ELSE s

Trim(s) == TrimEnd(TrimStart(s))

\* s.includes(sub)
Includes(s, sub) ==
  \E i \in 1..(Len(s) - Len(sub) + 1) : SubSeq(s, i, i + Len(sub) - 1) = sub

\* s.startsWith(p)
StartsWith(s, p) == Len(p) <= Len(s) /\ SubSeq(s, 1, Len(p)) = p

\* s.endsWith(p)
EndsWith(s, p) == Len(p) <= Len(s) /\ SubSeq(s, Len(s) - Len(p) + 1, Len(s)) = p

\* s.replace(/[cs]/g, '')
RECURSIVE DropChars(_, _)
DropChars(s, cs) ==
  IF s = "" THEN ""
  ELSE (IF Head(s) \in cs THEN "" ELSE Head(s)) \o DropChars(Tail(s), cs)

\* s.replace(/[^cs]/g, '')
RECURSIVE KeepChars(_, _)
KeepChars(s, cs) ==
  IF s = "" THEN ""
  ELSE (IF Head(s) \in cs THEN Head(s) ELSE "") \o KeepChars(Tail(s), cs)

\* the index of the last character of the run of cs-characters that starts at
\* i (i - 1 when the run is empty)
RECURSIVE RunEnd(_, _, _)
RunEnd(s, i, cs) ==
  IF i <= Len(s) /\ CharAt(s, i) \in cs THEN RunEnd(s, i + 1, cs) ELSE i - 1

\* s.split(/[cs]/): one piece more than there are separator characters
RECURSIVE SplitOn(_, _)
SplitOn(s, cs) ==
  LET i == RunEnd(s, 1, CharsOf(s) \ cs) + 1
  IN IF i > Len(s) THEN <<s>>
     ELSE <<SubSeq(s, 1, i - 1)>> \o SplitOn(SubSeq(s, i + 1, Len(s)), cs)

\* s.split(/[cs]+/): a run of separator characters separates once
RECURSIVE SplitOnRuns(_, _)
SplitOnRuns(s, cs) ==
  LET i == RunEnd(s, 1, CharsOf(s) \ cs) + 1
      j == RunEnd(s, i, cs)
  IN IF i > Len(s) THEN <<s>>
     ELSE <<SubSeq(s, 1, i - 1)>> \o SplitOnRuns(SubSeq(s, j + 1, Len(s)), cs)

\* parts.join(sep)
RECURSIVE Join(_, _)
Join(parts, sep) ==
  IF Len(parts) = 0 THEN ""
  ELSE IF Len(parts) = 1 THEN parts[1]
  ELSE parts[1] \o sep \o Join(Tail(parts), sep)

NonEmpty(s) == Len(s) > 0

AllIn(s, cs) == \A i \in 1..Len(s) : CharAt(s, i) \in cs

\* s.padStart(n, c)
RECURSIVE PadStart(_, _, _)
PadStart(s, n, c) == IF Len(s) >= n THEN s ELSE PadStart(c \o s, n, c)

DigitValue(c) == CHOOSE d \in 0..9 : CharAt(DIGIT_CHARS, d + 1) = c

\* parseInt(s, 10) of a string of digits
RECURSIVE ParseInt(_)
ParseInt(s) ==
  IF s = "" THEN 0
  ELSE 10 * ParseInt(SubSeq(s, 1, Len(s) - 1)) + DigitValue(CharAt(s, Len(s)))

\* the elements of a sequence
Range(f) == { f[i] : i \in DOMAIN f }

(***************************************************************************)
(* Constants of cleaningEngine.ts                                          *)
(***************************************************************************)
TARGET_HEADERS ==
  <<"Email", "First Name", "Last Name", "Phone", "Address",
    "Birthday", "Time Zone", "Status", "Tags", "Notes">>

MAX_NAME_LENGTH == 26

NAME_PREFIXES ==
  <<
    "Mr", "Mr.", "Mrs", "Mrs.", "Ms", "Ms.", "Miss", "Dr",
    "Dr.", "Prof", "Prof.", "Professor", "Rev", "Rev.", "Reverend", "Hon",
    "Hon.", "Honorable", "Sir", "Dame", "Lady", "Lord"
  >>

NAME_SUFFIXES ==
  <<
    "Jr", "Jr.", "Junior", "Sr", "Sr.", "Senior", "I", "II",
    "III", "IV", "V", "PhD", "Ph.D", "Ph.D.", "MD", "M.D",
    "M.D.", "DDS", "D.D.S.", "Esq", "Esq.", "CPA", "RN", "MBA"
  >>

VALID_STATUSES == <<"Lead", "Customer", "VIP">>

VALID_TIME_ZONES ==
  <<
    "Abu Dhabi", "Adelaide", "Alaska", "Almaty",
    "American Samoa", "Amsterdam", "Arizona", "Astana",
    "Athens", "Atlantic Time (Canada)", "Auckland", "Azores",
    "Baghdad", "Baku", "Bangkok", "Beijing",
    "Belgrade", "Berlin", "Bern", "Bogota",
    "Brasilia", "Bratislava", "Brisbane", "Brussels",
    "Bucharest", "Budapest", "Buenos Aires", "Cairo",
    "Canberra", "Cape Verde Is.", "Caracas", "Casablanca",
    "Central America", "Central Time (US & Canada)", "Chatham Is.", "Chennai",
    "Chihuahua", "Chongqing", "Copenhagen", "Darwin",
    "Dhaka", "Eastern Time (US & Canada)", "Edinburgh", "Ekaterinburg",
    "Fiji", "Georgetown", "Greenland", "Guadalajara",
    "Guam", "Hanoi", "Harare", "Hawaii",
    "Helsinki", "Hobart", "Hong Kong", "Indiana (East)",
    "International Date Line West", "Irkutsk", "Islamabad", "Istanbul",
    "Jakarta", "Jerusalem", "Kabul", "Kaliningrad",
    "Kamchatka", "Karachi", "Kathmandu", "Kolkata",
    "Krasnoyarsk", "Kuala Lumpur", "Kuwait", "Kyiv",
    "La Paz", "Lima", "Lisbon", "Ljubljana",
    "London", "Madrid", "Magadan", "Marshall Is.",
    "Mazatlan", "Melbourne", "Mexico City", "Mid-Atlantic",
    "Midway Island", "Minsk", "Monrovia", "Monterrey",
    "Montevideo", "Moscow", "Mountain Time (US & Canada)", "Mumbai",
    "Muscat", "Nairobi", "New Caledonia", "New Delhi",
    "Newfoundland", "Novosibirsk", "Nuku'alofa", "Osaka",
    "Pacific Time (US & Canada)", "Paris", "Perth", "Port Moresby",
    "Prague", "Pretoria", "Quito", "Rangoon",
    "Riga", "Riyadh", "Rome", "Samara",
    "Samoa", "Santiago", "Sapporo", "Sarajevo",
    "Saskatchewan", "Seoul", "Singapore", "Skopje",
    "Sofia", "Solomon Is.", "Srednekolymsk", "Sri Jayawardenepura",
    "St. Petersburg", "Stockholm", "Sydney", "Taipei",
    "Tallinn", "Tashkent", "Tbilisi", "Tehran",
    "Tijuana", "Tokelau Is.", "Tokyo", "Ulaanbaatar",
    "Urumqi", "UTC", "Vienna", "Vilnius",
    "Vladivostok", "Volgograd", "Warsaw", "Wellington",
    "West Central Africa", "Yakutsk", "Yerevan", "Zagreb"
  >>

\* alias and the zone it stands for, in the order of the object literal
TIMEZONE_ALIASES ==
  <<
    <<"est", "Eastern Time (US & Canada)">>, <<"edt", "Eastern Time (US & Canada)">>,
    <<"eastern", "Eastern Time (US & Canada)">>, <<"eastern time", "Eastern Time (US & Canada)">>,
    <<"eastern standard time", "Eastern Time (US & Canada)">>, <<"eastern daylight time", "Eastern Time (US & Canada)">>,
    <<"et", "Eastern Time (US & Canada)">>, <<"america/new_york", "Eastern Time (US & Canada)">>,
    <<"new york", "Eastern Time (US & Canada)">>, <<"us/eastern", "Eastern Time (US & Canada)">>,
    <<"cst", "Central Time (US & Canada)">>, <<"cdt", "Central Time (US & Canada)">>,
    <<"central", "Central Time (US & Canada)">>, <<"central time", "Central Time (US & Canada)">>,
    <<"central standard time", "Central Time (US & Canada)">>, <<"central daylight time", "Central Time (US & Canada)">>,
    <<"ct", "Central Time (US & Canada)">>, <<"america/chicago", "Central Time (US & Canada)">>,
    <<"chicago", "Central Time (US & Canada)">>, <<"us/central", "Central Time (US & Canada)">>,
    <<"mst", "Mountain Time (US & Canada)">>, <<"mdt", "Mountain Time (US & Canada)">>,
    <<"mountain", "Mountain Time (US & Canada)">>, <<"mountain time", "Mountain Time (US & Canada)">>,
    <<"mountain standard time", "Mountain Time (US & Canada)">>, <<"mountain daylight time", "Mountain Time (US & Canada)">>,
    <<"mt", "Mountain Time (US & Canada)">>, <<"america/denver", "Mountain Time (US & Canada)">>,
    <<"denver", "Mountain Time (US & Canada)">>, <<"us/mountain", "Mountain Time (US & Canada)">>,
    <<"pst", "Pacific Time (US & Canada)">>, <<"pdt", "Pacific Time (US & Canada)">>,
    <<"pacific", "Pacific Time (US & Canada)">>, <<"pacific time", "Pacific Time (US & Canada)">>,
    <<"pacific standard time", "Pacific Time (US & Canada)">>, <<"pacific daylight time", "Pacific Time (US & Canada)">>,
    <<"pt", "Pacific Time (US & Canada)">>, <<"america/los_angeles", "Pacific Time (US & Canada)">>,
    <<"los angeles", "Pacific Time (US & Canada)">>, <<"la", "Pacific Time (US & Canada)">>,
    <<"us/pacific", "Pacific Time (US & Canada)">>, <<"akst", "Alaska">>,
    <<"akdt", "Alaska">>, <<"alaska time", "Alaska">>,
    <<"america/anchorage", "Alaska">>, <<"us/alaska", "Alaska">>,
    <<"hst", "Hawaii">>, <<"hast", "Hawaii">>,
    <<"hawaiian", "Hawaii">>, <<"hawaii time", "Hawaii">>,
    <<"pacific/honolulu", "Hawaii">>, <<"us/hawaii", "Hawaii">>,
    <<"america/phoenix", "Arizona">>, <<"phoenix", "Arizona">>,
    <<"us/arizona", "Arizona">>, <<"atlantic", "Atlantic Time (Canada)">>,
    <<"ast", "Atlantic Time (Canada)">>, <<"adt", "Atlantic Time (Canada)">>,
    <<"america/halifax", "Atlantic Time (Canada)">>, <<"canada/atlantic", "Atlantic Time (Canada)">>,
    <<"indiana", "Indiana (East)">>, <<"america/indiana", "Indiana (East)">>,
    <<"gmt", "London">>, <<"bst", "London">>,
    <<"uk", "London">>, <<"britain", "London">>,
    <<"europe/london", "London">>, <<"greenwich", "London">>,
    <<"cet", "Paris">>, <<"cest", "Paris">>,
    <<"france", "Paris">>, <<"europe/paris", "Paris">>,
    <<"germany", "Berlin">>, <<"europe/berlin", "Berlin">>,
    <<"jst", "Tokyo">>, <<"japan", "Tokyo">>,
    <<"asia/tokyo", "Tokyo">>, <<"china", "Beijing">>,
    <<"shanghai", "Beijing">>, <<"asia/shanghai", "Beijing">>,
    <<"india", "New Delhi">>, <<"ist", "New Delhi">>,
    <<"asia/kolkata", "Kolkata">>, <<"aest", "Sydney">>,
    <<"aedt", "Sydney">>, <<"australia", "Sydney">>,
    <<"australia/sydney", "Sydney">>
  >>

MONTH_NAMES ==
  <<
    <<"jan", "01">>, <<"january", "01">>, <<"feb", "02">>, <<"february", "02">>,
    <<"mar", "03">>, <<"march", "03">>, <<"apr", "04">>, <<"april", "04">>,
    <<"may", "05">>, <<"jun", "06">>, <<"june", "06">>, <<"jul", "07">>,
    <<"july", "07">>, <<"aug", "08">>, <<"august", "08">>, <<"sep", "09">>,
    <<"sept", "09">>, <<"september", "09">>, <<"oct", "10">>, <<"october", "10">>,
    <<"nov", "11">>, <<"november", "11">>, <<"dec", "12">>, <<"december", "12">>
  >>

(***************************************************************************)
(* Value cleaners                                                          *)
(***************************************************************************)
\* the index of the first element of seq that satisfies Test, as
\* Array.prototype.find and a for-of loop with an early return pick it;
\* 0 when there is none
FirstIndex(seq, Test(_)) ==
  IF \E i \in DOMAIN seq : Test(seq[i])
    THEN CHOOSE i \in DOMAIN seq : Test(seq[i]) /\ \A j \in 1..(i - 1) : ~Test(seq[j])
    ELSE 0

\* validStatus.toLowerCase() and validTz.toLowerCase() for every list entry
LowerAll(seq) == [i \in DOMAIN seq |-> ToLowerCase(seq[i])]

LowerStatuses == LowerAll(VALID_STATUSES)

LowerTimeZones == LowerAll(VALID_TIME_ZONES)

\* word.charAt(0).toUpperCase() + word.slice(1)
ProperWord(word) ==
  IF word = "" THEN "" ELSE UpperChar(Head(word)) \o Tail(word)

ProperWords(words) == [i \in DOMAIN words |-> ProperWord(words[i])]

toProperCase(str) ==
  IF str = "" THEN ""
  ELSE Join(ProperWords(SplitOn(ToLowerCase(str), {" "})), " ")

cleanPhone(phone) == IF phone = "" THEN "" ELSE KeepChars(phone, Digits)

cleanEmail(email) ==
  IF email = "" THEN "" ELSE DropChars(ToLowerCase(email), Whitespace)

\* the loop over VALID_STATUSES: index of the status equal to normalized
StatusIndex(normalized) ==
  LET Matches(lowerStatus) == lowerStatus = normalized
  IN FirstIndex(LowerStatuses, Matches)

StatusOr(i, trimmed) == IF i # 0 THEN VALID_STATUSES[i] ELSE trimmed

cleanStatus(status) ==
  IF status = "" THEN ""
  ELSE StatusOr(StatusIndex(ToLowerCase(Trim(status))), Trim(status))

TrimAll(pieces) == [i \in DOMAIN pieces |-> Trim(pieces[i])]

cleanTags(tags) ==
  IF tags = "" THEN ""
  ELSE Join(SelectSeq(TrimAll(SplitOn(tags, {",", ";", "|"})), NonEmpty), "|")

\* the loop over VALID_TIME_ZONES
ZoneIndex(lowerNormalized) ==
  LET IsZone(lowerTz) == lowerTz = lowerNormalized
  IN FirstIndex(LowerTimeZones, IsZone)

\* TIMEZONE_ALIASES[lowerNormalized]
AliasIndex(lowerNormalized) ==
  LET IsAlias(entry) == entry[1] = lowerNormalized
  IN FirstIndex(TIMEZONE_ALIASES, IsAlias)

\* the loop over Object.entries(TIMEZONE_ALIASES): partial matching
PartialIndex(lowerNormalized) ==
  LET Partial(entry) ==
        Includes(lowerNormalized, entry[1]) \/ Includes(entry[1], lowerNormalized)
  IN FirstIndex(TIMEZONE_ALIASES, Partial)

\* the order of the three lookups of cleanTimeZone
ZoneOr(z, a, p, normalized) ==
  IF z # 0 THEN VALID_TIME_ZONES[z]
  ELSE IF a # 0 THEN TIMEZONE_ALIASES[a][2]
  ELSE IF p # 0 THEN TIMEZONE_ALIASES[p][2]
  ELSE normalized

LookupZone(normalized, lowerNormalized) ==
  ZoneOr(ZoneIndex(lowerNormalized), AliasIndex(lowerNormalized),
         PartialIndex(lowerNormalized), normalized)

cleanTimeZone(timeZone) ==
  IF timeZone = "" THEN ""
  ELSE LookupZone(Trim(timeZone), ToLowerCase(Trim(timeZone)))

BIRTHDAY_FORMATS == <<"MM/DD/YYYY", "DD/MM/YYYY", "YYYY/MM/DD">>

\* the null of parseBirthday
NoBirthday == [ok |-> FALSE, month |-> "", day |-> "", year |-> ""]

Components(m, d, y) == [ok |-> TRUE, month |-> m, day |-> d, year |-> y]

\* MONTH_NAMES[monthText.toLowerCase()], "" when the table has no such key
MonthIndex(lowerText) ==
  LET Named(entry) == entry[1] = lowerText
  IN FirstIndex(MONTH_NAMES, Named)

MonthAt(i) == IF i # 0 THEN MONTH_NAMES[i][2] ELSE ""

MonthOf(monthText) == MonthAt(MonthIndex(ToLowerCase(monthText)))

\* /^(\d{4})[\/\-](\d{1,2})[\/\-](\d{1,2})$/ and /^(\d{1,2})[\/\-](\d{1,2})[\/\-](\d{4})$/:
\* three runs of digits of the given lengths around two separators
DateParts(trimmed) == SplitOn(trimmed, {"/", "-"})

PartsMatch(parts, lens) ==
  /\ Len(parts) = 3
  /\ \A i \in 1..3 : AllIn(parts[i], Digits) /\ Len(parts[i]) \in lens[i]

DateMatch(trimmed, lens) == PartsMatch(DateParts(trimmed), lens)

\* the ends of the runs of the given character classes, one after the other
RECURSIVE RunEnds(_, _, _)
RunEnds(s, i, classes) ==
  IF classes = <<>> THEN <<>>
  ELSE <<RunEnd(s, i, Head(classes))>>
         \o RunEnds(s, RunEnd(s, i, Head(classes)) + 1, Tail(classes))

\* the groups of a text date whose runs end at e: word, whitespace, word,
\* optional comma, whitespace, year; <<>> when the pattern does not match
TextGroups(trimmed, e, firstLens) ==
  IF /\ e[1] \in firstLens
     /\ e[2] > e[1]
     /\ e[3] > e[2]
     /\ e[4] - e[3] <= 1
     /\ e[5] > e[4]
     /\ e[6] - e[5] = 4
     /\ e[6] = Len(trimmed)
    THEN <<SubSeq(trimmed, 1, e[1]), SubSeq(trimmed, e[2] + 1, e[3]),
           SubSeq(trimmed, e[5] + 1, e[6])>>
    ELSE <<>>

\* /^([a-zA-Z]+)\s+(\d{1,2}),?\s+(\d{4})$/ : the groups, <<>> when no match
TextMatch1(trimmed) ==
  LET g == TextGroups(trimmed,
                      RunEnds(trimmed, 1, <<Letters, Whitespace, Digits, {","}, Whitespace, Digits>>),
                      1..Len(trimmed))
  IN IF g # <<>> /\ Len(g[2]) \in 1..2 THEN g ELSE <<>>

\* /^(\d{1,2})\s+([a-zA-Z]+),?\s+(\d{4})$/ : the groups, <<>> when no match
TextMatch2(trimmed) ==
  TextGroups(trimmed,
             RunEnds(trimmed, 1, <<Digits, Whitespace, Letters, {","}, Whitespace, Digits>>),
             1..2)

\* Pattern: Month Day Year
MonthDayYear(groups) ==
  IF groups # <<>> /\ MonthOf(groups[1]) # ""
    THEN Components(MonthOf(groups[1]), PadStart(groups[2], 2, "0"), groups[3])
    ELSE NoBirthday

\* Pattern: Day Month Year
DayMonthYear(groups) ==
  IF groups # <<>> /\ MonthOf(groups[2]) # ""
    THEN Components(MonthOf(groups[2]), PadStart(groups[1], 2, "0"), groups[3])
    ELSE NoBirthday

FirstParsed(a, b) == IF a.ok THEN a ELSE b

\* YYYY-MM-DD or YYYY/MM/DD
IsoDate(parts) ==
  Components(PadStart(parts[2], 2, "0"), PadStart(parts[3], 2, "0"), parts[1])

\* a reading of XX/XX/YYYY that always takes the first number as the month
SlashDateMonthFirst(first, second, year, firstNum, secondNum) ==
  Components(PadStart(first, 2, "0"), PadStart(second, 2, "0"), year)

\* XX/XX/YYYY or XX-XX-YYYY
SlashDate(first, second, year, firstNum, secondNum) ==
  IF firstNum > 12 /\ secondNum <= 12
    THEN Components(PadStart(second, 2, "0"), PadStart(first, 2, "0"), year)
  ELSE IF secondNum > 12 /\ firstNum <= 12
    THEN Components(PadStart(first, 2, "0"), PadStart(second, 2, "0"), year)
  ELSE Components(PadStart(first, 2, "0"), PadStart(second, 2, "0"), year)

SlashParts(parts) ==
  SlashDate(parts[1], parts[2], parts[3], ParseInt(parts[1]), ParseInt(parts[2]))

ParseTrimmed(trimmed) ==
  IF DateMatch(trimmed, <<{4}, 1..2, 1..2>>) THEN IsoDate(DateParts(trimmed))
  ELSE IF DateMatch(trimmed, <<1..2, 1..2, {4}>>) THEN SlashParts(DateParts(trimmed))
  ELSE FirstParsed(MonthDayYear(TextMatch1(trimmed)), DayMonthYear(TextMatch2(trimmed)))

parseBirthday(birthday) ==
  IF birthday = "" THEN NoBirthday ELSE ParseTrimmed(Trim(birthday))

formatBirthdayToTarget(components, format) ==
  CASE format = "MM/DD/YYYY" ->
         components.month \o "/" \o components.day \o "/" \o components.year
    [] format = "DD/MM/YYYY" ->
         components.day \o "/" \o components.month \o "/" \o components.year
    [] format = "YYYY/MM/DD" ->
         components.year \o "/" \o components.month \o "/" \o components.day
    [] OTHER ->
         components.month \o "/" \o components.day \o "/" \o components.year

FormatOr(components, trimmed) ==
  IF components.ok
    THEN formatBirthdayToTarget(components, "MM/DD/YYYY")
    ELSE trimmed

cleanBirthday(birthday) == FormatOr(parseBirthday(birthday), Trim(birthday))

isEmptyValue(value) ==
  ToLowerCase(Trim(value)) \in {"", "n/a", "null", "undefined"}

\* the switch of cleanCell: the cleaner of the target column; custom fields
\* and Address and Notes pass through unchanged
CleanFor(originalValue, targetHeader) ==
  CASE targetHeader \in {"First Name", "Last Name"} -> toProperCase(originalValue)
    [] targetHeader = "Email" -> cleanEmail(originalValue)
    [] targetHeader = "Phone" -> cleanPhone(originalValue)
    [] targetHeader = "Status" -> cleanStatus(originalValue)
    [] targetHeader = "Tags" -> cleanTags(originalValue)
    [] targetHeader = "Time Zone" -> cleanTimeZone(originalValue)
    [] targetHeader = "Birthday" -> cleanBirthday(originalValue)
    [] OTHER -> originalValue

\* [cleanedValue, wasModified]
CellResult(cleaned, originalValue) ==
  [value |-> cleaned, wasModified |-> cleaned # originalValue]

CleanTrimmed(value, originalValue, targetHeader) ==
  IF isEmptyValue(value)
    THEN [value |-> "", wasModified |-> originalValue # ""]
    ELSE CellResult(CleanFor(originalValue, targetHeader), originalValue)

\* cleanCell returns [cleanedValue, wasModified]
cleanCell(value, targetHeader) == CleanTrimmed(value, Trim(value), targetHeader)

(***************************************************************************)
(* Validators of single values                                             *)
(***************************************************************************)
\* /^[^\s@]+@[^\s@]+\.[^\s@]+$/ : no whitespace, exactly one @, text before
\* it, and after it a dot with text on both sides
validateEmailFormat(email) ==
  /\ email # ""
  /\ \A i \in 1..Len(email) : CharAt(email, i) \notin Whitespace
  /\ LET parts == SplitOn(email, {"@"})
     IN /\ Len(parts) = 2
        /\ parts[1] # ""
        /\ \E i \in 2..(Len(parts[2]) - 1) : CharAt(parts[2], i) = "."

validateStatus(status) ==
  \/ status = ""
  \/ ToLowerCase(status) \in Range(LowerStatuses)

validateTimeZone(timeZone) ==
  \/ timeZone = ""
  \/ ToLowerCase(timeZone) \in Range(LowerTimeZones)

(***************************************************************************)
(* Cleaner harness: a raw cell is cleaned for a target header, and the     *)
(* result is cleaned again, as a second import of an exported file does.   *)
(***************************************************************************)
\* longest raw value enumerated over CleanAlphabet
MaxLen == 4

CleanAlphabet == {"n", "/", "a", " ", "1"}

RECURSIVE StringsUpTo(_, _)
StringsUpTo(cs, n) ==
  IF n = 0 THEN {""}
  ELSE LET shorter == StringsUpTo(cs, n - 1)
       IN shorter \cup { s \o c : s \in shorter, c \in cs }

SampleValues ==
  { "N/A", "null", " Undefined ", "  ",
    " John.Doe @ Example.com ", "JOHN  smith", "o'NEIL-mcDonald",
    "(555) 123-4567", "+44 20 7946 0958", "abc",
    "lead", "VIP ", "Prospect",
    "a, b;c|d", "n/a,", ",;|",
    "PST", "pacific time (us & canada)", "Central Park", "Mars Standard Time",
    "America/New_York", "utc", "Kolkata",
    "01/15/1990", "15/01/1990", "03/04/1990", "1990-1-5", "1990-13-05",
    "13/13/1990", "Jan 6 1975", "January 6, 1975", "6 Jan, 1975", "Foo 6 1975",
    "1/2/90", "1/2/1990", "25-12-1990", "1990/12/25", " 7/4/1976 ", "12/25-1990" }

RawValues == StringsUpTo(CleanAlphabet, MaxLen) \cup SampleValues

\* a custom field of the import, next to the ten standard headers
CustomField == "Pet Name"

CleanFields == Range(TARGET_HEADERS) \cup {CustomField}

InitClean ==
  /\ cellField \in CleanFields
  /\ cellRaw \in RawValues
  /\ cellOut = <<>>
  /\ IdleSplit /\ IdleProcess /\ IdleValidate /\ IdleExport /\ IdleBirthday /\ IdleAddress /\ IdleWizard /\ IdleRate

\* cleanCell(rawValue, targetHeader), as processData calls it for a cell
CleanRaw ==
  /\ cellOut = <<>>
  /\ cellOut' = <<cleanCell(cellRaw, cellField)>>
  /\ UNCHANGED <<cellField, cellRaw, splitVars, processVars, validateVars, exportVars, birthdayVars, addressVars, wizardVars, rateVars>>

\* cleanCell on the value the first call returned
CleanAgain ==
  /\ Len(cellOut) = 1
  /\ cellOut' = Append(cellOut, cleanCell(cellOut[1].value, cellField))
  /\ UNCHANGED <<cellField, cellRaw, splitVars, processVars, validateVars, exportVars, birthdayVars, addressVars, wizardVars, rateVars>>

NextClean == CleanRaw \/ CleanAgain

SpecClean == InitClean /\ [][NextClean]_vars

\* C1: cleaning is idempotent for every standard target field:
\* cleaning a cleaned value again returns it unchanged.
C1_Idempotent ==
  (cellField \in Range(TARGET_HEADERS) /\ Len(cellOut) = 2)
    => cellOut[2].value = cellOut[1].value

\* C2: the Time Zone cleaner returns "Central Park" unchanged (it is neither
\* a zone label nor an alias), and validateTimeZone reports the result invalid.
C2_CentralParkUnchanged ==
  (cellField = "Time Zone" /\ cellRaw = "Central Park" /\ Len(cellOut) >= 1)
    => /\ cellOut[1].value = "Central Park"
       /\ cellOut[1].value # "Central Time (US & Canada)"
       /\ ~validateTimeZone(cellOut[1].value)

(***************************************************************************)
(* Full-name splitter                                                      *)
(***************************************************************************)
\* removePrefix / removeSuffix return the words left and the list entry that
\* matched; an absent `removed` (undefined) is "" here, no list entry is ""
removePrefix(words) ==
  IF Len(words) = 0 THEN [cleaned |-> words, removed |-> ""]
  ELSE LET firstWord == words[1]
           Matches(prefix) == ToLowerCase(prefix) = ToLowerCase(firstWord)
           i == FirstIndex(NAME_PREFIXES, Matches)
       IN IF i # 0
            THEN [cleaned |-> Tail(words), removed |-> NAME_PREFIXES[i]]
            ELSE [cleaned |-> words, removed |-> ""]

removeSuffix(words) ==
  IF Len(words) = 0 THEN [cleaned |-> words, removed |-> ""]
  ELSE LET lastWord == words[Len(words)]
           Matches(suffix) == ToLowerCase(suffix) = ToLowerCase(lastWord)
           i == FirstIndex(NAME_SUFFIXES, Matches)
       IN IF i # 0
            THEN [cleaned |-> SubSeq(words, 1, Len(words) - 1), removed |-> NAME_SUFFIXES[i]]
            ELSE [cleaned |-> words, removed |-> ""]

SplitNameResult(first, last, prefix, suffix) ==
  [firstName |-> first, lastName |-> last, removedPrefix |-> prefix, removedSuffix |-> suffix]

\* a splitter that gives the first two of three words to the first name
AssignNamesTwoFirst(words, removedPrefix, removedSuffix) ==
  IF Len(words) = 1
    THEN SplitNameResult(words[1], "", removedPrefix, removedSuffix)
  ELSE IF Len(words) = 2
    THEN SplitNameResult(words[1], words[2], removedPrefix, removedSuffix)
  ELSE SplitNameResult(Join(SubSeq(words, 1, 2), " "),
                       Join(SubSeq(words, 3, Len(words)), " "),
                       removedPrefix, removedSuffix)

\* the assignment of the words left after prefix and suffix removal
AssignNames(words, removedPrefix, removedSuffix) ==
  IF Len(words) = 1
    THEN SplitNameResult(words[1], "", removedPrefix, removedSuffix)
  ELSE IF Len(words) = 2
    THEN SplitNameResult(words[1], words[2], removedPrefix, removedSuffix)
  ELSE IF Len(words) = 3
    THEN IF Len(words[2]) = 1 \/ (Len(words[2]) = 2 /\ EndsWith(words[2], "."))
           THEN SplitNameResult(words[1], words[3], removedPrefix, removedSuffix)
           ELSE SplitNameResult(words[1], Join(Tail(words), " "),
                                removedPrefix, removedSuffix)
  ELSE SplitNameResult(Join(SubSeq(words, 1, 2), " "),
                       Join(SubSeq(words, 3, Len(words)), " "),
                       removedPrefix, removedSuffix)

splitFullName(name) ==
  IF name = "" THEN SplitNameResult("", "", "", "")
  ELSE
    LET allWords == SelectSeq(SplitOnRuns(Trim(name), Whitespace), NonEmpty)
        prefixResult == removePrefix(allWords)
        suffixResult == removeSuffix(prefixResult.cleaned)
        words == suffixResult.cleaned
    IN IF Len(allWords) = 0 THEN SplitNameResult("", "", "", "")
       ELSE IF Len(words) = 0
         THEN SplitNameResult("", "", prefixResult.removed, suffixResult.removed)
       ELSE AssignNames(words, prefixResult.removed, suffixResult.removed)

(***************************************************************************)
(* Name splitter harness: splitFullName applied to one full name           *)
(***************************************************************************)
\* most words in an enumerated full name
MaxWords == 5

NameWords == {"Dr.", "John", "Michael", "Smith", "Jr.", "M."}

RECURSIVE WordSeqsUpTo(_)
WordSeqsUpTo(n) ==
  IF n = 0 THEN {<<>>}
  ELSE LET shorter == WordSeqsUpTo(n - 1)
       IN shorter \cup { Append(ws, w) : ws \in shorter, w \in NameWords }

SampleNames ==
  { "  dr  JOHN\tsmith  ", "Smith, John", "MRS. Jane Q Public PHD",
    "Mr Jr", "Miss Mary Ann van der Berg III", "   ",
    "Tom & Jerry", "Ann 2. Lee" }

FullNames == { Join(ws, " ") : ws \in WordSeqsUpTo(MaxWords) } \cup SampleNames

InitSplit ==
  /\ fullName \in FullNames
  /\ splitOut = <<>>
  /\ IdleCell /\ IdleProcess /\ IdleValidate /\ IdleExport /\ IdleBirthday /\ IdleAddress /\ IdleWizard /\ IdleRate

SplitName ==
  /\ splitOut = <<>>
  /\ splitOut' = <<splitFullName(fullName)>>
  /\ UNCHANGED <<fullName, cellVars, processVars, validateVars, exportVars, birthdayVars, addressVars, wizardVars, rateVars>>

NextSplit == SplitName

SpecSplit == InitSplit /\ [][NextSplit]_vars

\* C3 as stated: splitFullName("Dr. John Michael Smith Jr.") returns
\* firstName "John Michael", lastName "Smith", prefix "Dr." and suffix "Jr.".
C3_FirstNameJohnMichael ==
  (fullName = "Dr. John Michael Smith Jr." /\ splitOut # <<>>)
    => splitOut[1] = SplitNameResult("John Michael", "Smith", "Dr.", "Jr.")

\* C3 amended: splitFullName("Dr. John Michael Smith Jr.") returns firstName
\* "John", lastName "Michael Smith", removedPrefix "Dr." and removedSuffix
\* "Jr.": three words are left and the middle one is no initial.
C3_LastNameMichaelSmith ==
  (fullName = "Dr. John Michael Smith Jr." /\ splitOut # <<>>)
    => splitOut[1] = SplitNameResult("John", "Michael Smith", "Dr.", "Jr.")

C3_Witness ==
  /\ fullName = "Dr. John Michael Smith Jr."
  /\ splitOut # <<>>
  /\ splitOut[1].removedPrefix = "Dr."

(***************************************************************************)
(* Row processor                                                           *)
(***************************************************************************)
\* row[h]; a key the row does not have reads as undefined, which every
\* reader below treats like ''
Cell(row, h) == IF h \in DOMAIN row THEN row[h] ELSE ""

\* row[k] = v
Put(row, k, v) == [h \in DOMAIN row \cup {k} |-> IF h = k THEN v ELSE row[h]]

\* a HeaderMapping; targetHeader null is "", confidence is left out
\* (processData never reads it)
HeaderMapping(source, target, custom) ==
  [sourceHeader |-> source, targetHeader |-> target, isCustom |-> custom]

STAT_NAMES ==
  { "totalRows", "emailsCleaned", "phonesNormalized", "emptyValuesCleared",
    "namesToProperCase", "totalCellsModified", "statusValidated",
    "timeZoneValidated", "tagsFormatted", "birthdayFormatted",
    "addressesConsolidated", "emptyRowsRemoved", "emptyColumnsRemoved" }

InitialStats(nRows) ==
  [n \in STAT_NAMES |-> IF n = "totalRows" THEN nRows ELSE 0]

Incr(stats, name) == [stats EXCEPT ![name] = @ + 1]

\* the switch of processData: the counter of a standard target header,
\* "" for Address, Notes and custom fields
CounterOf(targetHeader) ==
  CASE targetHeader = "Email" -> "emailsCleaned"
    [] targetHeader = "Phone" -> "phonesNormalized"
    [] targetHeader \in {"First Name", "Last Name"} -> "namesToProperCase"
    [] targetHeader = "Status" -> "statusValidated"
    [] targetHeader = "Time Zone" -> "timeZoneValidated"
    [] targetHeader = "Tags" -> "tagsFormatted"
    [] targetHeader = "Birthday" -> "birthdayFormatted"
    [] OTHER -> ""

\* statistics that count a cleared cell whether or not it was modified
CountCellClearedApart(stats, targetHeader, rawValue, cell) ==
  LET s1 == IF cell.wasModified THEN Incr(stats, "totalCellsModified") ELSE stats
      s2 == IF cell.wasModified /\ CounterOf(targetHeader) # ""
              THEN Incr(s1, CounterOf(targetHeader))
              ELSE s1
  IN IF cell.value = "" /\ rawValue # "" THEN Incr(s2, "emptyValuesCleared") ELSE s2

\* the statistics of one cleaned cell
CountCell(stats, targetHeader, rawValue, cell) ==
  IF cell.wasModified
    THEN LET s1 == Incr(stats, "totalCellsModified")
             s2 == IF CounterOf(targetHeader) # "" THEN Incr(s1, CounterOf(targetHeader)) ELSE s1
         IN IF cell.value = "" /\ rawValue # "" THEN Incr(s2, "emptyValuesCleared") ELSE s2
    ELSE stats

\* Collect all target headers (standard + custom), in order
RECURSIVE AllTargetHeaders(_, _)
AllTargetHeaders(headers, ms) ==
  IF ms = <<>> THEN headers
  ELSE LET m == Head(ms)
       IN IF m.targetHeader # "" /\ m.isCustom /\ m.targetHeader \notin Range(headers)
            THEN AllTargetHeaders(Append(headers, m.targetHeader), Tail(ms))
            ELSE AllTargetHeaders(headers, Tail(ms))

\* the body of mappings.forEach once the cell is cleaned
WithCell(acc, targetHeader, rawValue, cell) ==
  [row |-> Put(acc.row, targetHeader, cell.value),
   stats |-> CountCell(acc.stats, targetHeader, rawValue, cell)]

CleanInto(acc, targetHeader, rawValue) ==
  WithCell(acc, targetHeader, rawValue, cleanCell(rawValue, targetHeader))

\* the body of mappings.forEach: acc is [row: the cleaned row so far, stats]
ApplyMapping(acc, row, mapping) ==
  IF mapping.targetHeader # "" /\ mapping.sourceHeader # ""
    THEN CleanInto(acc, mapping.targetHeader, Cell(row, mapping.sourceHeader))
    ELSE acc

\* mappings.forEach over one raw row
RECURSIVE ApplyMappings(_, _, _)
ApplyMappings(acc, row, ms) ==
  IF ms = <<>> THEN acc
  ELSE ApplyMappings(ApplyMapping(acc, row, Head(ms)), row, Tail(ms))

\* Initialize all target headers with empty strings
BlankRow(headers) == [h \in Range(headers) |-> ""]

AddRow(acc, built) ==
  [data |-> Append(acc.data, built.row), stats |-> built.stats]

\* the body of rows.map: acc is [data: the cleaned rows so far, stats]
BuildRow(acc, row, ms, headers) ==
  AddRow(acc, ApplyMappings([row |-> BlankRow(headers), stats |-> acc.stats], row, ms))

\* rows.map
RECURSIVE BuildRows(_, _, _, _)
BuildRows(acc, rs, ms, headers) ==
  IF rs = <<>> THEN acc
  ELSE BuildRows(BuildRow(acc, Head(rs), ms, headers), Tail(rs), ms, headers)

\* value && value.trim() !== ''
HasValue(value) == value # "" /\ Trim(value) # ""

hasData(row) == \E h \in DOMAIN row : HasValue(row[h])

\* a column set that keeps every column of the surviving rows
EveryColumn(filteredData) ==
  UNION { DOMAIN filteredData[i] : i \in DOMAIN filteredData }

\* columnsWithData
ColumnsWithData(filteredData) ==
  { h \in UNION { DOMAIN filteredData[i] : i \in DOMAIN filteredData } :
      \E i \in DOMAIN filteredData :
        h \in DOMAIN filteredData[i] /\ HasValue(filteredData[i][h]) }

\* allColumns
AllColumns(filteredData) ==
  IF Len(filteredData) > 0 THEN DOMAIN filteredData[1] ELSE {}

\* Remove empty columns from each row
PruneColumns(filteredData, columnsWithData) ==
  [i \in DOMAIN filteredData |->
     [h \in DOMAIN filteredData[i] \cap columnsWithData |-> filteredData[i][h]]]

\* statistics that leave totalRows at the number of input rows
FinalStatsOfInput(stats, data, filteredData, prunedData) ==
  [stats EXCEPT
     !["emptyRowsRemoved"] = Cardinality({ i \in DOMAIN data : ~hasData(data[i]) }),
     !["emptyColumnsRemoved"] =
        Cardinality(AllColumns(filteredData) \ ColumnsWithData(filteredData))]

\* the statistics after the row filter and the column pruning
FinalStats(stats, data, filteredData, prunedData) ==
  [stats EXCEPT
     !["emptyRowsRemoved"] = Cardinality({ i \in DOMAIN data : ~hasData(data[i]) }),
     !["emptyColumnsRemoved"] =
        Cardinality(AllColumns(filteredData) \ ColumnsWithData(filteredData)),
     !["totalRows"] = Len(prunedData)]

Finish(built, filteredData, prunedData) ==
  [data |-> prunedData,
   stats |-> FinalStats(built.stats, built.data, filteredData, prunedData)]

FilterAndPrune(built, filteredData) ==
  Finish(built, filteredData, PruneColumns(filteredData, ColumnsWithData(filteredData)))

FilterRows(built) == FilterAndPrune(built, SelectSeq(built.data, hasData))

processData(rs, ms) ==
  FilterRows(BuildRows([data |-> <<>>, stats |-> InitialStats(Len(rs))], rs, ms,
                       AllTargetHeaders(TARGET_HEADERS, ms)))

(***************************************************************************)
(* Row processor harness: processData applied to a parsed file and a       *)
(* header mapping                                                          *)
(***************************************************************************)
\* most rows in an enumerated file
MaxRows == 2

RECURSIVE SeqsUpTo(_, _)
SeqsUpTo(S, n) ==
  IF n = 0 THEN {<<>>}
  ELSE LET shorter == SeqsUpTo(S, n - 1)
       IN shorter \cup { Append(q, x) : q \in shorter, x \in S }

\* the parsed file has two columns, "A" and "B"
RawRows ==
  { [A |-> a, B |-> b] : a \in {"", "  ", "n/a", "A@B.co", "abc"},
                         b \in {"", "rex", " N/A"} }

\* one HeaderMapping per source column
MappingLists ==
  { <<HeaderMapping("A", ta, FALSE), mb>> :
      ta \in {"", "Email", "Phone"},
      mb \in { HeaderMapping("B", "", FALSE), HeaderMapping("B", "Phone", FALSE),
               HeaderMapping("B", "Notes", FALSE), HeaderMapping("B", CustomField, TRUE) } }

InitProcess ==
  /\ rows \in SeqsUpTo(RawRows, MaxRows)
  /\ mappings \in MappingLists
  /\ processed = <<>>
  /\ IdleCell /\ IdleSplit /\ IdleValidate /\ IdleExport /\ IdleBirthday /\ IdleAddress /\ IdleWizard /\ IdleRate

\* processData(rows, mappings)
Process ==
  /\ processed = <<>>
  /\ processed' = <<processData(rows, mappings)>>
  /\ UNCHANGED <<rows, mappings, cellVars, splitVars, validateVars, exportVars, birthdayVars, addressVars, wizardVars, rateVars>>

NextProcess == Process

SpecProcess == InitProcess /\ [][NextProcess]_vars

\* the mapped cells of the run: row index and mapping index
MappedCells ==
  { c \in (DOMAIN rows) \X (DOMAIN mappings) :
      mappings[c[2]].targetHeader # "" /\ mappings[c[2]].sourceHeader # "" }

RawOf(c) == Cell(rows[c[1]], mappings[c[2]].sourceHeader)

CleanedOf(c) == cleanCell(RawOf(c), mappings[c[2]].targetHeader).value

\* the cleaned value differs from the trimmed original
Differs(c) == CleanedOf(c) # Trim(RawOf(c))

\* the cleaned row of every input row, before rows and columns are dropped
CleanedRows ==
  BuildRows([data |-> <<>>, stats |-> InitialStats(Len(rows))], rows, mappings,
            AllTargetHeaders(TARGET_HEADERS, mappings)).data

NonBlank(row) == \E h \in DOMAIN row : Trim(row[h]) # ""

\* the input rows that survive, in input order
Survivors == SelectSeq(CleanedRows, NonBlank)

\* the 10 standard headers plus the mapped custom headers
TargetColumns ==
  Range(TARGET_HEADERS) \cup
    { mappings[j].targetHeader : j \in { k \in DOMAIN mappings :
                                          mappings[k].isCustom /\ mappings[k].targetHeader # "" } }

\* the target columns in which a surviving row has a non-empty value
ColumnsWithValue(survivors) ==
  { h \in TargetColumns : \E i \in DOMAIN survivors : Trim(Cell(survivors[i], h)) # "" }

\* C4: processData keeps exactly the input rows whose cleaned row has a
\* non-empty value, in input order; emptyRowsRemoved counts the dropped rows,
\* totalRows the output rows, and the two add up to the number of input rows.
C4_RowsKept ==
  processed # <<>> =>
    LET out == processed[1]
        survivors == Survivors
    IN /\ Len(out.data) = Len(survivors)
       /\ \A k \in DOMAIN out.data :
            \A h \in DOMAIN out.data[k] : out.data[k][h] = survivors[k][h]
       /\ \A k \in DOMAIN out.data : NonBlank(out.data[k])
       /\ out.stats["emptyRowsRemoved"] = Len(rows) - Len(survivors)
       /\ out.stats["totalRows"] = Len(out.data)
       /\ out.stats["totalRows"] + out.stats["emptyRowsRemoved"] = Len(rows)

C4_Witness ==
  /\ processed # <<>>
  /\ Len(rows) = 2
  /\ processed[1].stats["emptyRowsRemoved"] = 1
  /\ processed[1].stats["totalRows"] = 1
  /\ NonBlank(CleanedRows[2])

\* C5 as stated: a column key is present in the output rows exactly when a
\* surviving row has a value in it, all output rows have the same keys, and
\* emptyColumnsRemoved is the number of target columns without any value in
\* the surviving rows, for every input and mapping.
C5_EmptyColumnsCounted ==
  processed # <<>> =>
    LET out == processed[1]
        withValue == ColumnsWithValue(Survivors)
    IN /\ \A k \in DOMAIN out.data : DOMAIN out.data[k] = withValue
       /\ out.stats["emptyColumnsRemoved"] = Cardinality(TargetColumns \ withValue)

\* C5 amended: the same when at least one row survives; when no row survives
\* there is no output row and emptyColumnsRemoved is 0.
C5_EmptyColumnsCountedIfRows ==
  processed # <<>> =>
    LET out == processed[1]
        withValue == ColumnsWithValue(Survivors)
    IN /\ \A k \in DOMAIN out.data : DOMAIN out.data[k] = withValue
       /\ out.stats["emptyColumnsRemoved"] =
            IF Len(out.data) > 0 THEN Cardinality(TargetColumns \ withValue) ELSE 0

C5_Witness ==
  /\ processed # <<>>
  /\ Len(processed[1].data) = 2
  /\ DOMAIN processed[1].data[1] = {"Email", CustomField}
  /\ processed[1].stats["emptyColumnsRemoved"] = 9

\* C6 as stated: per mapped cell, the field's counter and totalCellsModified
\* go up exactly when the cleaned value differs from the trimmed original,
\* and emptyValuesCleared goes up, independently of that, exactly when the
\* cleaned value is "" while the raw value was truthy.
C6_ClearedCountedIndependently ==
  processed # <<>> =>
    LET stats == processed[1].stats
    IN /\ stats["totalCellsModified"] = Cardinality({ c \in MappedCells : Differs(c) })
       /\ \A n \in STAT_NAMES \ {"totalRows", "totalCellsModified", "emptyValuesCleared",
                                  "addressesConsolidated", "emptyRowsRemoved",
                                  "emptyColumnsRemoved"} :
            stats[n] = Cardinality({ c \in MappedCells :
                          Differs(c) /\ CounterOf(mappings[c[2]].targetHeader) = n })
       /\ stats["emptyValuesCleared"] =
            Cardinality({ c \in MappedCells : CleanedOf(c) = "" /\ RawOf(c) # "" })

\* C6 amended: emptyValuesCleared goes up exactly when the cleaned value
\* differs from the trimmed original and is "" while the raw value was truthy
\* (a raw cell of whitespace only trims to "" and is not counted).
C6_ClearedCountedWhenModified ==
  processed # <<>> =>
    LET stats == processed[1].stats
    IN /\ stats["totalCellsModified"] = Cardinality({ c \in MappedCells : Differs(c) })
       /\ \A n \in STAT_NAMES \ {"totalRows", "totalCellsModified", "emptyValuesCleared",
                                  "addressesConsolidated", "emptyRowsRemoved",
                                  "emptyColumnsRemoved"} :
            stats[n] = Cardinality({ c \in MappedCells :
                          Differs(c) /\ CounterOf(mappings[c[2]].targetHeader) = n })
       /\ stats["emptyValuesCleared"] =
            Cardinality({ c \in MappedCells :
                          Differs(c) /\ CleanedOf(c) = "" /\ RawOf(c) # "" })

C6_Witness ==
  /\ processed # <<>>
  /\ \E c \in MappedCells : RawOf(c) = "  "
  /\ \E c \in MappedCells : RawOf(c) = "n/a"
  /\ processed[1].stats["emptyValuesCleared"] = 1
  /\ processed[1].stats["totalCellsModified"] = 1


(***************************************************************************)
(* Row validation, selectors and duplicate detection                       *)
(***************************************************************************)
\* row[field]?.trim() || ''
Trimmed(row, field) == Trim(Cell(row, field))

\* !row[field] || row[field].trim() === ''
Blank(row, field) == Cell(row, field) = "" \/ Trim(Cell(row, field)) = ""

\* a validation that stops at a First Name problem
MissingFieldsNameFirst(row) ==
  LET Missing(field) == Blank(row, field)
  IN IF Trimmed(row, "First Name") = "" THEN <<"First Name">>
     ELSE IF Len(Trimmed(row, "First Name")) > MAX_NAME_LENGTH THEN <<>>
     ELSE SelectSeq(<<"Email", "Phone", "Last Name">>, Missing)

\* missingFields: First Name when required, then the optional critical
\* fields that are blank
MissingFields(row) ==
  LET Missing(field) == Blank(row, field)
  IN (IF Trimmed(row, "First Name") = "" THEN <<"First Name">> ELSE <<>>)
       \o SelectSeq(<<"Email", "Phone", "Last Name">>, Missing)

\* the flags validateRows computes for one row
RowValidation(row, index) ==
  [rowIndex |-> index,
   missingFields |-> MissingFields(row),
   invalidEmail |->
     /\ Cell(row, "Email") # ""
     /\ Trim(Cell(row, "Email")) # ""
     /\ ~validateEmailFormat(Cell(row, "Email")),
   invalidStatus |->
     /\ Cell(row, "Status") # ""
     /\ Trim(Cell(row, "Status")) # ""
     /\ ~validateStatus(Cell(row, "Status")),
   invalidTimeZone |->
     ~Blank(row, "Time Zone") /\ ~validateTimeZone(Cell(row, "Time Zone")),
   missingTimeZone |-> Blank(row, "Time Zone"),
   firstNameRequired |-> Trimmed(row, "First Name") = "",
   firstNameTooLong |->
     /\ Trimmed(row, "First Name") # ""
     /\ Len(Trimmed(row, "First Name")) > MAX_NAME_LENGTH,
   lastNameTooLong |-> Len(Trimmed(row, "Last Name")) > MAX_NAME_LENGTH]

\* a validation that drops the missing time zone from the push condition
HasIssueButTimeZone(v) ==
  \/ Len(v.missingFields) > 0
  \/ v.invalidEmail
  \/ v.invalidStatus
  \/ v.invalidTimeZone
  \/ v.firstNameTooLong
  \/ v.lastNameTooLong

\* the condition under which validateRows pushes the record
HasIssue(v) ==
  \/ Len(v.missingFields) > 0
  \/ v.invalidEmail
  \/ v.invalidStatus
  \/ v.invalidTimeZone
  \/ v.missingTimeZone
  \/ v.firstNameTooLong
  \/ v.lastNameTooLong

validateRows(data) ==
  SelectSeq([i \in DOMAIN data |-> RowValidation(data[i], i - 1)], HasIssue)

\* data.map((row, index) => ...).filter(...).map(({ index }) => index):
\* the 0-based indices of the rows that pass Test, in order
IndicesWhere(data, Test(_)) ==
  LET Passes(index) == Test(data[index + 1])
  IN SelectSeq([i \in DOMAIN data |-> i - 1], Passes)

getRowsWithMissingTimezone(data) ==
  LET Missing(row) == Blank(row, "Time Zone")
  IN IndicesWhere(data, Missing)

getRowsWithMissingStatus(data) ==
  LET Missing(row) == Blank(row, "Status")
  IN IndicesWhere(data, Missing)

\* the status is trimmed before it is validated
getRowsWithInvalidStatus(data) ==
  LET Invalid(row) ==
        Trimmed(row, "Status") # "" /\ ~validateStatus(Trimmed(row, "Status"))
  IN IndicesWhere(data, Invalid)

getRowsWithNameTooLong(data) ==
  LET TooLong(row) ==
        \/ Len(Trimmed(row, "First Name")) > MAX_NAME_LENGTH
        \/ Len(Trimmed(row, "Last Name")) > MAX_NAME_LENGTH
  IN IndicesWhere(data, TooLong)

\* a key that keeps the case of the Email
EmailKeyCased(row) == Trim(Cell(row, "Email"))

\* row['Email']?.toLowerCase().trim()
EmailKey(row) == Trim(ToLowerCase(Cell(row, "Email")))

\* emailMap.get(email).push(index), after emailMap.set(email, []) for a new
\* key; the map is the sequence of its entries in insertion order
PushIndex(emailMap, email, index) ==
  IF \E k \in DOMAIN emailMap : emailMap[k].value = email
    THEN [k \in DOMAIN emailMap |->
            IF emailMap[k].value = email
              THEN [emailMap[k] EXCEPT !.rowIndices = Append(@, index)]
              ELSE emailMap[k]]
    ELSE Append(emailMap, [value |-> email, rowIndices |-> <<index>>])

\* the body of data.forEach in detectDuplicates
AddEmail(emailMap, email, index) ==
  IF email # "" THEN PushIndex(emailMap, email, index) ELSE emailMap

\* data.forEach from row i on
RECURSIVE EmailMap(_, _, _)
EmailMap(emailMap, data, i) ==
  IF i > Len(data) THEN emailMap
  ELSE EmailMap(AddEmail(emailMap, EmailKey(data[i]), i - 1), data, i + 1)

IsDuplicate(entry) == Len(entry.rowIndices) > 1

DuplicateGroup(entry) ==
  [field |-> "Email", value |-> entry.value, rowIndices |-> entry.rowIndices]

DuplicateGroups(entries) == [k \in DOMAIN entries |-> DuplicateGroup(entries[k])]

detectDuplicates(data) ==
  DuplicateGroups(SelectSeq(EmailMap(<<>>, data, 1), IsDuplicate))

(***************************************************************************)
(* Validation harness: validateRows and the selectors applied to the same  *)
(* rows                                                                    *)
(***************************************************************************)
RECURSIVE Repeat(_, _)
Repeat(c, n) == IF n = 0 THEN "" ELSE c \o Repeat(c, n - 1)

\* a row without any issue
ValidRow ==
  [h \in {"First Name", "Last Name", "Email", "Phone", "Status", "Time Zone"} |->
     CASE h = "First Name" -> "Al"
       [] h = "Last Name" -> "Bo"
       [] h = "Email" -> "a@b.co"
       [] h = "Phone" -> "555"
       [] h = "Status" -> "Lead"
       [] h = "Time Zone" -> "UTC"]

\* single cells that differ from ValidRow
Deviations ==
  { <<"First Name", "">>, <<"First Name", "  ">>,
    <<"First Name", Repeat("x", MAX_NAME_LENGTH)>>,
    <<"First Name", Repeat("x", MAX_NAME_LENGTH + 1)>>,
    <<"First Name", " " \o Repeat("x", MAX_NAME_LENGTH) \o " ">>,
    <<"Last Name", "">>, <<"Last Name", Repeat("y", MAX_NAME_LENGTH + 1)>>,
    <<"Email", "">>, <<"Email", "bad">>, <<"Email", "a@b">>,
    <<"Phone", "">>,
    <<"Status", "">>, <<"Status", "lead">>, <<"Status", " Lead">>, <<"Status", "foo">>,
    <<"Time Zone", "">>, <<"Time Zone", " ">>, <<"Time Zone", "Mars">>,
    <<"Time Zone", "utc">> }

\* rows as processData returns them: a column without data has no key
WithoutColumns(row, hs) == [h \in DOMAIN row \ hs |-> row[h]]

ValidationRows ==
  {ValidRow}
    \cup { Put(ValidRow, d[1], d[2]) : d \in Deviations }
    \cup { WithoutColumns(ValidRow, {"Time Zone"}), WithoutColumns(ValidRow, {"Status"}),
           WithoutColumns(ValidRow, {"First Name", "Phone"}),
           Put(Put(ValidRow, "Status", "foo"), "Time Zone", ""),
           Put(Put(ValidRow, "First Name", ""), "Last Name", Repeat("y", MAX_NAME_LENGTH + 1)),
           Put(Put(ValidRow, "First Name", Repeat("x", 30)), "Email", "") }

InitValidate ==
  /\ dataRows \in SeqsUpTo(ValidationRows, MaxRows)
  /\ warnings = <<>>
  /\ selected = <<>>
  /\ duplicates = <<>>
  /\ IdleCell /\ IdleSplit /\ IdleProcess /\ IdleExport /\ IdleBirthday /\ IdleAddress /\ IdleWizard /\ IdleRate

\* validateRows(data)
ValidateRows ==
  /\ warnings = <<>>
  /\ warnings' = <<validateRows(dataRows)>>
  /\ UNCHANGED <<dataRows, selected, duplicates, cellVars, splitVars, processVars, exportVars, birthdayVars, addressVars, wizardVars, rateVars>>

\* the four selectors on the same data
SelectRows ==
  /\ selected = <<>>
  /\ selected' = <<[missingTimezone |-> getRowsWithMissingTimezone(dataRows),
                    missingStatus |-> getRowsWithMissingStatus(dataRows),
                    invalidStatus |-> getRowsWithInvalidStatus(dataRows),
                    nameTooLong |-> getRowsWithNameTooLong(dataRows)]>>
  /\ UNCHANGED <<dataRows, warnings, duplicates, cellVars, splitVars, processVars, exportVars, birthdayVars, addressVars, wizardVars, rateVars>>

NextValidate == ValidateRows \/ SelectRows

SpecValidate == InitValidate /\ [][NextValidate]_vars

\* the 0-based indices of the input rows
RowIndices == { i - 1 : i \in DOMAIN dataRows }

\* the records validateRows returned for row index
RecordsOf(index) == { k \in DOMAIN warnings[1] : warnings[1][k].rowIndex = index }

\* validateRows reports the flag for row index
Reports(index, flag) == \E k \in RecordsOf(index) : warnings[1][k][flag]

\* C7: the selectors agree with validateRows: a row index is among the rows
\* with a missing time zone, an invalid status or a name too long exactly
\* when validateRows reports that flag for the row.
C7_SelectorsAgree ==
  (warnings # <<>> /\ selected # <<>>) =>
    \A index \in RowIndices :
      /\ index \in Range(selected[1].missingTimezone) <=> Reports(index, "missingTimeZone")
      /\ index \in Range(selected[1].invalidStatus) <=> Reports(index, "invalidStatus")
      /\ index \in Range(selected[1].nameTooLong) <=>
           (Reports(index, "firstNameTooLong") \/ Reports(index, "lastNameTooLong"))

\* a row has an issue: a blank or invalid cell that validateRows looks for
RowHasIssue(row) ==
  \/ \E f \in {"First Name", "Email", "Phone", "Last Name", "Time Zone"} :
       Trim(Cell(row, f)) = ""
  \/ ~validateEmailFormat(Cell(row, "Email"))
  \/ (Trim(Cell(row, "Status")) # "" /\ ~validateStatus(Cell(row, "Status")))
  \/ ~validateTimeZone(Cell(row, "Time Zone"))
  \/ Len(Trim(Cell(row, "First Name"))) > MAX_NAME_LENGTH
  \/ Len(Trim(Cell(row, "Last Name"))) > MAX_NAME_LENGTH

\* C8: validateRows returns exactly one record for each row with an issue
\* and none for a row without; every record has a flag set or a missing
\* field; records come in ascending rowIndex, the row's input position.
C8_OneRecordPerIssueRow ==
  warnings # <<>> =>
    LET out == warnings[1]
    IN /\ \A index \in RowIndices :
            Cardinality(RecordsOf(index)) = IF RowHasIssue(dataRows[index + 1]) THEN 1 ELSE 0
       /\ \A k \in DOMAIN out :
            /\ out[k].rowIndex \in RowIndices
            /\ \/ Len(out[k].missingFields) > 0
               \/ \E flag \in {"invalidEmail", "invalidStatus", "invalidTimeZone",
                                "missingTimeZone", "firstNameTooLong", "lastNameTooLong"} :
                    out[k][flag]
       /\ \A k \in DOMAIN out : \A l \in DOMAIN out :
            k < l => out[k].rowIndex < out[l].rowIndex

C8_Witness ==
  /\ warnings # <<>>
  /\ Len(dataRows) = 2
  /\ ~RowHasIssue(dataRows[1])
  /\ Cell(dataRows[2], "Time Zone") = ""
  /\ Len(warnings[1]) = 1
  /\ warnings[1][1].rowIndex = 1
  /\ warnings[1][1].missingFields = <<>>

(***************************************************************************)
(* Duplicate harness: detectDuplicates applied to rows with an Email       *)
(***************************************************************************)
\* most rows handed to detectDuplicates
MaxEmailRows == 4

EmailRows ==
  { [Email |-> e] : e \in {"", "a@b.co", "A@B.co ", "c@d.co"} } \cup {[Phone |-> "555"]}

InitDuplicates ==
  /\ dataRows \in SeqsUpTo(EmailRows, MaxEmailRows)
  /\ warnings = <<>>
  /\ selected = <<>>
  /\ duplicates = <<>>
  /\ IdleCell /\ IdleSplit /\ IdleProcess /\ IdleExport /\ IdleBirthday /\ IdleAddress /\ IdleWizard /\ IdleRate

\* detectDuplicates(data)
DetectDuplicates ==
  /\ duplicates = <<>>
  /\ duplicates' = <<detectDuplicates(dataRows)>>
  /\ UNCHANGED <<dataRows, warnings, selected, cellVars, splitVars, processVars, exportVars, birthdayVars, addressVars, wizardVars, rateVars>>

NextDuplicates == DetectDuplicates

SpecDuplicates == InitDuplicates /\ [][NextDuplicates]_vars

\* the lower-cased, trimmed Email of the row at index
NormalEmail(index) == Trim(ToLowerCase(Cell(dataRows[index + 1], "Email")))

\* the row indices that carry the value
Carriers(value) == { index \in RowIndices : NormalEmail(index) = value }

\* C9: detectDuplicates returns one group per distinct lower-cased, trimmed,
\* non-empty Email that occurs in at least two rows; a group has field
\* "Email" and lists exactly the rows that carry the value, in ascending
\* order; no row is in two groups and a row with an empty Email is in none.
C9_GroupsByEmail ==
  duplicates # <<>> =>
    LET out == duplicates[1]
    IN /\ \A index \in RowIndices :
            LET value == NormalEmail(index)
            IN Cardinality({ k \in DOMAIN out : out[k].value = value }) =
                 IF value # "" /\ Cardinality(Carriers(value)) >= 2 THEN 1 ELSE 0
       /\ \A k \in DOMAIN out :
            /\ out[k].field = "Email"
            /\ out[k].value # ""
            /\ Range(out[k].rowIndices) = Carriers(out[k].value)
            /\ Len(out[k].rowIndices) >= 2
            /\ \A a \in DOMAIN out[k].rowIndices : \A b \in DOMAIN out[k].rowIndices :
                 a < b => out[k].rowIndices[a] < out[k].rowIndices[b]
       /\ \A k \in DOMAIN out : \A l \in DOMAIN out :
            k # l => Range(out[k].rowIndices) \cap Range(out[l].rowIndices) = {}
       /\ \A index \in RowIndices :
            NormalEmail(index) = "" =>
              \A k \in DOMAIN out : index \notin Range(out[k].rowIndices)

C9_Witness ==
  /\ duplicates # <<>>
  /\ Len(dataRows) = 4
  /\ Len(duplicates[1]) = 2
  /\ duplicates[1][1].value = "a@b.co"
  /\ duplicates[1][1].rowIndices = <<0, 2>>
  /\ Cell(dataRows[3], "Email") = "A@B.co "


(***************************************************************************)
(* Export: sanitizeData, generateCSV and generateExcel                     *)
(***************************************************************************)
formulaCharacters == <<"=", "+", "-", "@", "\t", "\r">>

\* a sanitizer that lets a leading minus sign through
sanitizeAllButMinus(value) ==
  IF value = "" THEN value
  ELSE IF \E i \in DOMAIN formulaCharacters :
            formulaCharacters[i] # "-" /\ StartsWith(value, formulaCharacters[i])
    THEN "'" \o value
    ELSE value

\* Sanitize cell values to prevent CSV injection
sanitizeForExport(value) ==
  IF value = "" THEN value
  ELSE IF \E i \in DOMAIN formulaCharacters : StartsWith(value, formulaCharacters[i])
    THEN "'" \o value
    ELSE value

\* phone.replace(/\D/g, '')
formatPhoneNumber(phone) == IF phone = "" THEN "" ELSE KeepChars(phone, Digits)

\* Apply phone formatting if this is the Phone column
PhoneFormatted(header, value) ==
  IF header = "Phone" /\ value # "" THEN formatPhoneNumber(value) ELSE value

\* the body of headers.forEach in sanitizeData; row[header] || '' is Cell
SanitizedCell(row, header) ==
  sanitizeForExport(PhoneFormatted(header, Cell(row, header)))

sanitizeData(data, headers) ==
  [i \in DOMAIN data |-> [h \in Range(headers) |-> SanitizedCell(data[i], h)]]

\* value.replace(/"/g, '""')
RECURSIVE DoubleQuotes(_)
DoubleQuotes(value) ==
  IF value = "" THEN ""
  ELSE (IF CharAt(value, 1) = "\"" THEN "\"\"" ELSE CharAt(value, 1))
         \o DoubleQuotes(SubSeq(value, 2, Len(value)))

escapeCSV(value) ==
  IF Includes(value, ",") \/ Includes(value, "\"") \/ Includes(value, "\n")
    THEN "\"" \o DoubleQuotes(value) \o "\""
    ELSE value

EscapeAll(cells) == [k \in DOMAIN cells |-> escapeCSV(cells[k])]

\* headers.map(header => escapeCSV(row[header] || ''))
LineCells(row, headers) == [k \in DOMAIN headers |-> escapeCSV(Cell(row, headers[k]))]

\* dataLines before the cells of a line are joined
DataCells(sanitizedData, headers) ==
  [i \in DOMAIN sanitizedData |-> LineCells(sanitizedData[i], headers)]

JoinLines(cellRows) == [i \in DOMAIN cellRows |-> Join(cellRows[i], ",")]

\* the file generateCSV writes: the cells of the header line, the data cells
\* and the text of the blob
CsvFile(headers, cells) ==
  [header |-> EscapeAll(headers), cells |-> cells,
   text |-> Join(<<Join(EscapeAll(headers), ",")>> \o JoinLines(cells), "\n")]

generateCSV(data, headers) ==
  CsvFile(headers, DataCells(sanitizeData(data, headers), headers))

\* worksheet.addRow(row): one cell per column key
SheetCells(sanitizedData, headers) ==
  [i \in DOMAIN sanitizedData |->
     [k \in DOMAIN headers |-> Cell(sanitizedData[i], headers[k])]]

\* the header row and the data rows of the worksheet generateExcel writes
generateExcel(data, headers) ==
  [header |-> headers, cells |-> SheetCells(sanitizeData(data, headers), headers),
   text |-> ""]

(***************************************************************************)
(* Export harness: cleaned rows written as CSV or as a worksheet           *)
(***************************************************************************)
\* most rows handed to the export
MaxExportRows == 2

\* the exported columns; no row has an Email
ExportHeaders == <<"Phone", "Notes", "Email">>

ExportRows ==
  { [Phone |-> p, Notes |-> n] :
      p \in {"", "+1 (555) 12", "-", "5551234567"},
      n \in {"", "=1+1", "+x", "-x", "@x", "\tx", "\rx", "'=x", " =x", "a,b", "=a,\"b\""} }

InitExport ==
  /\ exportData \in SeqsUpTo(ExportRows, MaxExportRows)
  /\ exportFormat \in {"csv", "xlsx"}
  /\ exported = <<>>
  /\ IdleCell /\ IdleSplit /\ IdleProcess /\ IdleValidate /\ IdleBirthday /\ IdleAddress /\ IdleWizard /\ IdleRate

\* generateCSV(exportData, headers)
GenerateCSV ==
  /\ exportFormat = "csv"
  /\ exported = <<>>
  /\ exported' = <<generateCSV(exportData, ExportHeaders)>>
  /\ UNCHANGED <<exportData, exportFormat, cellVars, splitVars, processVars, validateVars, birthdayVars, addressVars, wizardVars, rateVars>>

\* generateExcel(exportData, headers)
GenerateExcel ==
  /\ exportFormat = "xlsx"
  /\ exported = <<>>
  /\ exported' = <<generateExcel(exportData, ExportHeaders)>>
  /\ UNCHANGED <<exportData, exportFormat, cellVars, splitVars, processVars, validateVars, birthdayVars, addressVars, wizardVars, rateVars>>

NextExport == GenerateCSV \/ GenerateExcel

SpecExport == InitExport /\ [][NextExport]_vars

FormulaStarts == {"=", "+", "-", "@", "\t", "\r"}

\* the value of a cell once the Phone column is reduced to its digits
BeforeSanitizing(i, k) ==
  IF ExportHeaders[k] = "Phone"
    THEN KeepChars(Cell(exportData[i], "Phone"), Digits)
    ELSE Cell(exportData[i], ExportHeaders[k])

\* the value with one apostrophe in front when it starts a formula
Guarded(value) ==
  IF value # "" /\ CharAt(value, 1) \in FormulaStarts THEN "'" \o value ELSE value

\* C10: every data cell is written with exactly one apostrophe in front
\* when its value, after phone reformatting, starts with = + - @ tab or
\* carriage return, and unchanged otherwise (quoted as CSV requires); no
\* data cell written by generateCSV or generateExcel starts with one of
\* those six characters.
C10_NoFormulaCells ==
  exported # <<>> =>
    LET cells == exported[1].cells
    IN /\ Len(cells) = Len(exportData)
       /\ \A i \in DOMAIN cells :
            /\ Len(cells[i]) = Len(ExportHeaders)
            /\ \A k \in DOMAIN cells[i] :
                 /\ cells[i][k] = "" \/ CharAt(cells[i][k], 1) \notin FormulaStarts
                 /\ cells[i][k] =
                      IF exportFormat = "csv"
                        THEN escapeCSV(Guarded(BeforeSanitizing(i, k)))
                        ELSE Guarded(BeforeSanitizing(i, k))

C10_Witness ==
  /\ exported # <<>>
  /\ exportFormat = "csv"
  /\ Len(exportData) = 2
  /\ exportData[1] = [Phone |-> "+1 (555) 12", Notes |-> "-x"]
  /\ exportData[2].Notes = "=a,\"b\""
  /\ exported[1].cells[1] = <<"155512", "'-x", "">>
  /\ exported[1].cells[2][2] = "\"'=a,\"\"b\"\"\""

\* the dashed XXX-XXX-XXXX form of a phone of ten digits
Dashed(digits) ==
  SubSeq(digits, 1, 3) \o "-" \o SubSeq(digits, 4, 6) \o "-" \o SubSeq(digits, 7, 10)

\* C11: the exported Phone cell of a row whose phone has ten digits is the
\* grouped form XXX-XXX-XXXX, while the row handed to the export keeps the
\* digits-only value.
C11_PhoneGrouped ==
  exported # <<>> =>
    \A i \in DOMAIN exportData :
      LET phone == Cell(exportData[i], "Phone")
      IN (Len(phone) = 10 /\ AllIn(phone, Digits)) =>
           /\ exported[1].cells[i][1] = Dashed(phone)
           /\ exported[1].cells[i][1] # phone

\* ---------------------------------------------------------------------------
\* Re-rendering the birthdays of the cleaned rows
\* ---------------------------------------------------------------------------

\* one row of reformatBirthdays: an empty or missing Birthday and a Birthday
\* that does not parse leave the row as it is
ReformatWith(row, components, format) ==
  IF components.ok
    THEN Put(row, "Birthday", formatBirthdayToTarget(components, format))
    ELSE row

ReformatRow(row, format) ==
  IF Cell(row, "Birthday") = ""
    THEN row
    ELSE ReformatWith(row, parseBirthday(Cell(row, "Birthday")), format)

reformatBirthdays(data, format) ==
  [i \in DOMAIN data |-> ReformatRow(data[i], format)]

\* rows of the birthday harness: every shape of Birthday the parser knows,
\* an unparseable one, an empty one and a row without the column
BirthdayValues ==
  {"", "01/02/1990", "25/12/1990", "12/25/1990", "1990-13-05", "1990/1/5",
   "Jan 6 1975", "junk"}

BirthdayRows ==
  {[Birthday |-> b] : b \in BirthdayValues} \cup {[Email |-> "a@b.co"]}

InitBirthdays ==
  /\ dataRows \in SeqsUpTo(BirthdayRows, MaxRows)
  /\ birthdayFormat \in Range(BIRTHDAY_FORMATS)
  /\ reformatted = <<>>
  /\ warnings = <<>> /\ selected = <<>> /\ duplicates = <<>>
  /\ IdleCell /\ IdleSplit /\ IdleProcess /\ IdleExport /\ IdleAddress /\ IdleWizard /\ IdleRate

\* the first call, on the cleaned rows
Reformat ==
  /\ reformatted = <<>>
  /\ reformatted' = <<reformatBirthdays(dataRows, birthdayFormat)>>
  /\ UNCHANGED <<birthdayFormat, cellVars, splitVars, processVars, validateVars, exportVars, addressVars, wizardVars, rateVars>>

\* a second call with the same format, on the result of the first
ReformatAgain ==
  /\ Len(reformatted) = 1
  /\ reformatted' = Append(reformatted, reformatBirthdays(reformatted[1], birthdayFormat))
  /\ UNCHANGED <<birthdayFormat, cellVars, splitVars, processVars, validateVars, exportVars, addressVars, wizardVars, rateVars>>

NextBirthdays == Reformat \/ ReformatAgain

SpecBirthdays == InitBirthdays /\ [][NextBirthdays]_vars

\* every Birthday of the rows is present and parses
AllParse(data) ==
  \A i \in DOMAIN data :
    /\ Cell(data[i], "Birthday") # ""
    /\ parseBirthday(Cell(data[i], "Birthday")).ok

\* C13: with the format fixed, applying reformatBirthdays a second time to
\* rows whose Birthday values all parse gives the result of the first
\* application.
C13_ReformatIdempotent ==
  (Len(reformatted) = 2 /\ AllParse(dataRows)) => reformatted[2] = reformatted[1]

\* C17: over the cleaner harness, a cell that cleanCell returns as "" was
\* empty by the empty-value rule: its trimmed form is, whatever the case,
\* "", "n/a", "null" or "undefined" (an absent value reads as "").
C17_EmptiedOnlyByEmptyRule ==
  (Len(cellOut) >= 1 /\ cellOut[1].value = "")
    => ToLowerCase(Trim(cellRaw)) \in {"", "n/a", "null", "undefined"}

\* the MM/DD/YYYY rendering with month and day padded to two digits
MonthDayYearText(month, day, year) ==
  PadStart(month, 2, "0") \o "/" \o PadStart(day, 2, "0") \o "/" \o year

\* the Birthday the rules of C19 give for a trimmed A[-/]B[-/]YYYY value
ExpectedSlash(a, b, year) ==
  IF ParseInt(a) > 12 /\ ParseInt(b) <= 12
    THEN MonthDayYearText(b, a, year)
    ELSE MonthDayYearText(a, b, year)

\* C19: the Birthday cleaner reads YYYY[-/]M[-/]D as year, month, day; it
\* reads A[-/]B[-/]YYYY as day A and month B when A > 12 and B <= 12, and as
\* month A and day B when B > 12 and A <= 12 or when both are <= 12; it
\* renders the date as MM/DD/YYYY with month and day padded to two digits;
\* and it returns a value that matches no date pattern trimmed and unchanged.
C19_BirthdayDisambiguation ==
  (cellField = "Birthday" /\ Len(cellOut) >= 1 /\ ~isEmptyValue(cellRaw)) =>
    LET trimmed == Trim(cellRaw)
        parts == DateParts(trimmed)
        out == cellOut[1].value
    IN /\ PartsMatch(parts, <<{4}, 1..2, 1..2>>)
            => out = MonthDayYearText(parts[2], parts[3], parts[1])
       /\ (PartsMatch(parts, <<1..2, 1..2, {4}>>)
             /\ (ParseInt(parts[1]) <= 12 \/ ParseInt(parts[2]) <= 12))
            => out = ExpectedSlash(parts[1], parts[2], parts[3])
       /\ (/\ ~PartsMatch(parts, <<{4}, 1..2, 1..2>>)
           /\ ~PartsMatch(parts, <<1..2, 1..2, {4}>>)
           /\ TextMatch1(trimmed) = <<>>
           /\ TextMatch2(trimmed) = <<>>)
            => out = trimmed

\* a day-first date has been cleaned: day 15 and month 1 swap places
C19_Witness ==
  /\ cellField = "Birthday"
  /\ cellRaw = "15/01/1990"
  /\ Len(cellOut) >= 1
  /\ cellOut[1].value = "01/15/1990"

(***************************************************************************)
(* Address consolidation                                                   *)
(***************************************************************************)
AddressComponent(sourceHeader, role, order) ==
  [sourceHeader |-> sourceHeader, role |-> role, order |-> order]

\* components.sort((a, b) => a.order - b.order): a stable sort
RECURSIVE InsertByOrder(_, _)
InsertByOrder(sorted, comp) ==
  IF sorted = <<>> THEN <<comp>>
  ELSE IF sorted[Len(sorted)].order <= comp.order THEN Append(sorted, comp)
  ELSE Append(InsertByOrder(SubSeq(sorted, 1, Len(sorted) - 1), comp), sorted[Len(sorted)])

RECURSIVE SortByOrder(_)
SortByOrder(components) ==
  IF components = <<>> THEN <<>>
  ELSE InsertByOrder(SortByOrder(SubSeq(components, 1, Len(components) - 1)),
                     components[Len(components)])

\* row[comp.sourceHeader]?.trim(); an absent cell is "" and is filtered the same
ComponentValues(row, components) ==
  [i \in DOMAIN components |-> Trim(Cell(row, components[i].sourceHeader))]

\* the last character of the match of /,\s*,/ that starts at i, or i itself
\* when there is no match at i
CommaPairEnd(s, i, afterSpaces) ==
  IF CharAt(s, i) = "," /\ afterSpaces <= Len(s) /\ CharAt(s, afterSpaces) = ","
    THEN afterSpaces
    ELSE i

\* .replace(/,\s*,/g, ','): the matches are found left to right in one pass
RECURSIVE ReplaceCommaPairs(_, _)
ReplaceCommaPairs(s, i) ==
  IF i > Len(s) THEN ""
  ELSE CharAt(s, i)
         \o ReplaceCommaPairs(s, CommaPairEnd(s, i, RunEnd(s, i + 1, Whitespace) + 1) + 1)

OneSpace(c) == IF c \in Whitespace THEN " " ELSE c

\* .replace(/\s+/g, ' ')
RECURSIVE ReplaceSpaceRuns(_, _)
ReplaceSpaceRuns(s, i) ==
  IF i > Len(s) THEN ""
  ELSE OneSpace(CharAt(s, i))
         \o ReplaceSpaceRuns(s, (IF CharAt(s, i) \in Whitespace
                                   THEN RunEnd(s, i, Whitespace) ELSE i) + 1)

consolidateAddress(row, components, separator) ==
  Trim(ReplaceSpaceRuns(
         ReplaceCommaPairs(
           Join(SelectSeq(ComponentValues(row, SortByOrder(components)), NonEmpty),
                separator), 1), 1))

\* address harness: consolidateAddress on one row
\* most components handed to one call
MaxParts == 2

StreetPart == AddressComponent("Street", "street1", 0)
CityPart == AddressComponent("City", "city", 3)
StatePart == AddressComponent("State", "state", 4)

AddressValues == {"", "1 Main St", " Apt 4 ", "Suite 5,", "Box 7,,", "a \t b"}

AddressRows ==
  [{"Street", "City", "State"} -> AddressValues]
    \cup [{"Street", "State"} -> AddressValues]

\* lists of distinct components, in any order
ComponentLists ==
  { parts \in SeqsUpTo({StreetPart, CityPart, StatePart}, MaxParts) :
      \A i, j \in DOMAIN parts : i # j => parts[i] # parts[j] }

AddressSeparators == {", ", " "}

InitAddress ==
  /\ addressRow \in AddressRows
  /\ addressParts \in ComponentLists \X AddressSeparators
  /\ addressOut = <<>>
  /\ IdleCell /\ IdleSplit /\ IdleProcess /\ IdleValidate /\ IdleExport /\ IdleBirthday /\ IdleWizard /\ IdleRate

\* components.sort(...) sorts the caller's array in place
ConsolidateAddress ==
  /\ addressOut = <<>>
  /\ addressOut' = <<consolidateAddress(addressRow, addressParts[1], addressParts[2])>>
  /\ addressParts' = <<SortByOrder(addressParts[1]), addressParts[2]>>
  /\ UNCHANGED <<addressRow, cellVars, splitVars, processVars, validateVars, exportVars, birthdayVars, wizardVars, rateVars>>

\* a second call with the same row, array and separator
ConsolidateAddressAgain ==
  /\ Len(addressOut) = 1
  /\ addressOut' =
       Append(addressOut, consolidateAddress(addressRow, addressParts[1], addressParts[2]))
  /\ addressParts' = <<SortByOrder(addressParts[1]), addressParts[2]>>
  /\ UNCHANGED <<addressRow, cellVars, splitVars, processVars, validateVars, exportVars, birthdayVars, wizardVars, rateVars>>

NextAddress == ConsolidateAddress \/ ConsolidateAddressAgain

SpecAddress == InitAddress /\ [][NextAddress]_vars

\* the last comma of the run of commas, whitespace allowed between them,
\* that starts with the comma at i
RECURSIVE CommaRunEnd(_, _)
CommaRunEnd(s, i) ==
  LET next == RunEnd(s, i + 1, Whitespace) + 1
  IN IF next <= Len(s) /\ CharAt(s, next) = "," THEN CommaRunEnd(s, next) ELSE i

\* every run of commas, of any length, replaced by one comma
RECURSIVE CollapseCommaRuns(_, _)
CollapseCommaRuns(s, i) ==
  IF i > Len(s) THEN ""
  ELSE CharAt(s, i)
         \o CollapseCommaRuns(s, (IF CharAt(s, i) = "," THEN CommaRunEnd(s, i) ELSE i) + 1)

\* the components' trimmed, non-empty values in ascending order
OrderedValues ==
  LET by == SortByOrder(addressParts[1])
  IN SelectSeq([i \in DOMAIN by |-> Trim(Cell(addressRow, by[i].sourceHeader))], NonEmpty)

\* C20: the consolidated address is the trimmed, non-empty component values
\* joined in ascending order with the separator, with every run of commas
\* (whitespace allowed between them) collapsed to one comma, every run of
\* whitespace collapsed to one space, and the result trimmed; it is "" when
\* no component has a value.
C20_AddressCollapsed ==
  Len(addressOut) = 1 =>
    /\ addressOut[1] =
         Trim(ReplaceSpaceRuns(CollapseCommaRuns(Join(OrderedValues, addressParts[2]), 1), 1))
    /\ OrderedValues = <<>> => addressOut[1] = ""

(***************************************************************************)
(* Header mapping (useHeaderMapping) and the column detectors              *)
(***************************************************************************)
\* sourceHeader.toLowerCase().replace(/[_\-\s]+/g, '')
NormalizeHeader(header) == DropChars(ToLowerCase(header), {"_", "-"} \cup Whitespace)

\* the keyword chain of fallbackMapping; "" is the null target
FallbackTarget(normalized) ==
  IF Includes(normalized, "firstname") \/ normalized = "first" \/ normalized = "fname"
    THEN "First Name"
  ELSE IF Includes(normalized, "lastname") \/ normalized = "last" \/ normalized = "lname"
    THEN "Last Name"
  ELSE IF Includes(normalized, "email") \/ Includes(normalized, "mail")
    THEN "Email"
  ELSE IF \/ Includes(normalized, "phone") \/ Includes(normalized, "cell")
          \/ normalized = "ph" \/ Includes(normalized, "mobile")
    THEN "Phone"
  ELSE IF Includes(normalized, "address") \/ Includes(normalized, "street")
    THEN "Address"
  ELSE IF \/ Includes(normalized, "birthday") \/ Includes(normalized, "dob")
          \/ Includes(normalized, "birthdate")
    THEN "Birthday"
  ELSE IF Includes(normalized, "timezone") \/ Includes(normalized, "tz")
    THEN "Time Zone"
  ELSE IF \/ Includes(normalized, "status") \/ Includes(normalized, "type")
          \/ Includes(normalized, "category")
    THEN "Status"
  ELSE IF \/ Includes(normalized, "tag") \/ Includes(normalized, "source")
          \/ Includes(normalized, "lead")
    THEN "Tags"
  ELSE IF \/ Includes(normalized, "note") \/ Includes(normalized, "comment")
          \/ Includes(normalized, "info")
    THEN "Notes"
  ELSE ""

fallbackMapping(sourceHeaders) ==
  [i \in DOMAIN sourceHeaders |->
     HeaderMapping(sourceHeaders[i], FallbackTarget(NormalizeHeader(sourceHeaders[i])), FALSE)]

\* the body of the map-headers request
RequestBody(sourceHeaders) ==
  [sourceHeaders |-> sourceHeaders, targetHeaders |-> TARGET_HEADERS]

\* data.mappings.find(m => m.source?.toLowerCase() === sourceHeader.toLowerCase())
\* and aiMapping?.target || null; an entry is <<source, target>>
AiTargetAt(suggested, i) == IF i # 0 THEN suggested[i][2] ELSE ""

AiTarget(suggested, sourceHeader) ==
  LET Named(entry) == ToLowerCase(entry[1]) = ToLowerCase(sourceHeader)
  IN AiTargetAt(suggested, FirstIndex(suggested, Named))

aiMappings(suggested, sourceHeaders) ==
  [i \in DOMAIN sourceHeaders |->
     HeaderMapping(sourceHeaders[i], AiTarget(suggested, sourceHeaders[i]), FALSE)]

\* [\s_]? and [\s_-]? between two words of a header pattern
Between(a, seps, b) == {a \o b} \cup {a \o s \o b : s \in seps}

\* the patterns of detectAddressComponentColumns over the lower-cased header,
\* in the order the loop tries them: <<role, order, the strings that match>>
ADDRESS_PATTERNS ==
  LET sep == Whitespace \cup {"_"}
      lineOne == Between("line", sep, "1")
      lineTwo == Between("line", sep, "2")
  IN << <<"street1", 0,
          {"street"} \cup Between("addr", sep, "1") \cup Between("address", sep, "1")
            \cup Between("street", sep, "1") \cup lineOne
            \cup {"address" \o s \o l : s \in sep, l \in lineOne}>>,
        <<"address", 1, {"address"}>>,
        <<"street2", 2,
          Between("addr", sep, "2") \cup Between("address", sep, "2")
            \cup Between("street", sep, "2") \cup lineTwo
            \cup {"apt", "suite", "unit", "apartment"}
            \cup {"address" \o s \o l : s \in sep, l \in lineTwo}>>,
        <<"city", 3, {"city", "town", "municipality", "locality"}>>,
        <<"state", 4, {"state", "province", "region", "st", "prov"}>>,
        <<"zip", 5,
          {"zip", "postal", "postcode"} \cup Between("zip", sep, "code")
            \cup Between("postal", sep, "code")>>,
        <<"country", 6, {"country", "nation", "ctry"}>> >>

\* the first pattern the trimmed header matches, 0 when none does
AddressPatternOf(header) ==
  LET Matches(pattern) == ToLowerCase(Trim(header)) \in pattern[3]
  IN FirstIndex(ADDRESS_PATTERNS, Matches)

ComponentAt(header, p) ==
  AddressComponent(header, ADDRESS_PATTERNS[p][1], ADDRESS_PATTERNS[p][2])

\* components.push for every header that matches a pattern
RECURSIVE DetectedComponents(_)
DetectedComponents(headers) ==
  IF headers = <<>> THEN <<>>
  ELSE (IF AddressPatternOf(Head(headers)) # 0
          THEN <<ComponentAt(Head(headers), AddressPatternOf(Head(headers)))>>
          ELSE <<>>)
         \o DetectedComponents(Tail(headers))

detectAddressComponentColumns(headers) == SortByOrder(DetectedComponents(headers))

\* the combinedNamePatterns of detectFullNameColumn over the lower-cased header
COMBINED_NAME_PATTERNS ==
  LET sep == Whitespace \cup {"_", "-"}
  IN {"fullname", "name", "client", "contact"}
       \cup Between("full", sep, "name") \cup Between("client", sep, "name")
       \cup Between("customer", sep, "name") \cup Between("contact", sep, "name")

HasFirstNameColumn(headers) ==
  \E i \in DOMAIN headers :
    LET h == NormalizeHeader(headers[i])
    IN Includes(h, "firstname") \/ h = "fname" \/ h = "first"

HasLastNameColumn(headers) ==
  \E i \in DOMAIN headers :
    LET h == NormalizeHeader(headers[i])
    IN Includes(h, "lastname") \/ h = "lname" \/ h = "last"

CombinedNameAt(headers, i) == IF i # 0 THEN headers[i] ELSE ""

\* the sourceHeader of the detection, "" for null
detectFullNameColumn(headers) ==
  LET Combined(header) == ToLowerCase(Trim(header)) \in COMBINED_NAME_PATTERNS
  IN IF HasFirstNameColumn(headers) /\ HasLastNameColumn(headers)
       THEN ""
       ELSE CombinedNameAt(headers, FirstIndex(headers, Combined))

(***************************************************************************)
(* The import wizard (Index.tsx): its state, the inputs of its handlers    *)
(* and one action per handler.  The render-only state (sampleData,         *)
(* isProcessingFile, isLoading) is left out.  The user of this model       *)
(* splits the detected name column, consolidates the detected address      *)
(* components and assigns the missing time zones and statuses; the Skip    *)
(* buttons of these four resolvers, which only set their flag, the header  *)
(* rename and the row toggle, which no view calls, are not modelled.       *)
(***************************************************************************)
MAX_ROWS == 5000

\* the harness variables a wizard step never touches
offStage ==
  <<cellVars, splitVars, birthdayVars, addressVars, rateVars, rows, processed,
    dataRows, warnings, selected>>

\* exportData and exported hold the file the step wrote; a step that is not a
\* download writes none
NoDownload == exportData' = <<>> /\ exported' = <<>>

NoneResolved ==
  [duplicatesResolved |-> FALSE, timezonesResolved |-> FALSE,
   statusResolved |-> FALSE, nameLengthResolved |-> FALSE,
   dataIssuesResolved |-> FALSE, addressConsolidationResolved |-> FALSE,
   birthdayFormatResolved |-> FALSE, nameSplitResolved |-> FALSE]

\* a row of a parsed file: the values under the headers
RowOf(headers, values) ==
  [h \in Range(headers) |-> values[CHOOSE i \in DOMAIN headers : headers[i] = h]]

ParsedFile(fileName, headers, valueRows) ==
  [fileName |-> fileName, headers |-> headers,
   rows |-> [i \in DOMAIN valueRows |-> RowOf(headers, valueRows[i])]]

\* the files of the harness: two files with the same headers and different
\* rows; the first has a duplicated email, an over-long name, a day-first
\* birthday and address parts, the second a row without an email
IMPORT_HEADERS == <<"Name", "Email", "E-mail 2", "DOB", "Street", "City">>

WizardFiles ==
  { ParsedFile("a.csv", IMPORT_HEADERS,
               << <<"Dr. John Michael Smith", "Ann@x.co", "w@x.co", "01/02/1990",
                    "1 Main St", "Springfield">>,
                  <<"Maximilian-Bartholomew-Fitzgerald Lee", "ann@x.co ", "",
                    "25/12/1990", "", "Box 7,,">> >>),
    ParsedFile("b.csv", IMPORT_HEADERS,
               << <<"Bo Li", "bo@x.co", "", "", "2 Elm St", "Troy">>,
                  <<"Cy Orr", "", "", "", "", "">> >>) }

\* the answers of the map-headers function: a failed call, or suggestions
\* ({source, target} pairs) without address components and name column
AiAnswers ==
  { [ok |-> FALSE, mappings |-> <<>>, addressComponents |-> <<>>, nameSplitColumn |-> ""],
    [ok |-> TRUE,
     mappings |-> << <<"email", "Email">>, <<"dob", "Birthday">>,
                     <<"street", "Address">> >>,
     addressComponents |-> <<>>, nameSplitColumn |-> ""] }

\* the two auto-advance effects: name split to address consolidation, and
\* address consolidation to mapping review
AfterNameStep(s, file, nameColumn, flags) ==
  IF s = 2 /\ file # <<>> /\ (nameColumn = "" \/ flags.nameSplitResolved) THEN 3 ELSE s

AfterAddressStep(s, file, components, flags) ==
  IF s = 3 /\ file # <<>> /\ (Len(components) < 2 \/ flags.addressConsolidationResolved)
    THEN 4 ELSE s

Settle(s, file, nameColumn, components, flags) ==
  AfterAddressStep(AfterNameStep(s, file, nameColumn, flags), file, components, flags)

\* a request that carries the rows along with the headers
FileRequestWithRows(parsed) ==
  [sourceHeaders |-> parsed.headers, targetHeaders |-> TARGET_HEADERS,
   rows |-> parsed.rows]

\* the body handleFileSelect has getMappingsFromAI send for a parsed file
FileRequest(parsed) == RequestBody(parsed.headers)

FirstNonEmpty(a, b, c) == IF a # "" THEN a ELSE IF b # "" THEN b ELSE c

AtLeastTwo(a, b, c) == IF Len(a) >= 2 THEN a ELSE IF Len(b) >= 2 THEN b ELSE c

\* getMappingsFromAI for an answer with mappings
MappingsSuggested(parsed, answer) ==
  /\ mappings' = aiMappings(answer.mappings, parsed.headers)
  /\ originalMappings' = aiMappings(answer.mappings, parsed.headers)
  /\ addressComponents' =
       AtLeastTwo(answer.addressComponents,
                  detectAddressComponentColumns(parsed.headers), addressComponents)
  /\ nameSplitColumn' =
       FirstNonEmpty(answer.nameSplitColumn, detectFullNameColumn(parsed.headers),
                     nameSplitColumn)

\* getMappingsFromAI for a failed call
MappingsFallenBack(parsed) ==
  /\ mappings' = fallbackMapping(parsed.headers)
  /\ UNCHANGED <<originalMappings, addressComponents, nameSplitColumn>>

handleFileSelect(parsed, answer) ==
  /\ step = 1
  /\ Len(parsed.rows) <= MAX_ROWS
  /\ parsedFile' = parsed
  /\ aiRequest' = <<FileRequest(parsed)>>
  /\ hasBeenModified' = FALSE
  /\ IF answer.ok THEN MappingsSuggested(parsed, answer) ELSE MappingsFallenBack(parsed)
  /\ step' = Settle(2, parsed, nameSplitColumn', addressComponents', resolved)
  /\ UNCHANGED <<cleanedData, cleaningStats, validations, duplicates, rowsToSkip,
                 resolved, addressesConsolidatedCount, customFields,
                 exportFormat, offStage>>
  /\ NoDownload

FileSelect == \E parsed \in WizardFiles, answer \in AiAnswers : handleFileSelect(parsed, answer)

\* the header's Back button: setStep(step - 1), then the effects
Back ==
  /\ step > 1
  /\ step' = Settle(step - 1, parsedFile, nameSplitColumn, addressComponents, resolved)
  /\ UNCHANGED <<parsedFile, cleanedData, cleaningStats, validations, duplicates,
                 rowsToSkip, resolved, addressesConsolidatedCount, mappings,
                 originalMappings, hasBeenModified, customFields, addressComponents,
                 nameSplitColumn, aiRequest, exportFormat, offStage>>
  /\ NoDownload

WithoutKey(row, k) == [h \in DOMAIN row \ {k} |-> row[h]]

\* handleSplit of the NameSplitterResolver: one row
SplitInto(row, result) ==
  Put(Put(row, "First Name", result.firstName), "Last Name", result.lastName)

SplitRow(row, sourceHeader) ==
  IF Trim(Cell(row, sourceHeader)) # ""
    THEN SplitInto(WithoutKey(row, sourceHeader), splitFullName(Trim(Cell(row, sourceHeader))))
    ELSE Put(Put(WithoutKey(row, sourceHeader), "First Name", ""), "Last Name", "")

SplitRows(data, sourceHeader) == [i \in DOMAIN data |-> SplitRow(data[i], sourceHeader)]

\* seq with x inserted after position i
InsertAfter(seq, i, x) == SubSeq(seq, 1, i) \o <<x>> \o SubSeq(seq, i + 1, Len(seq))

\* the headers after a name split
WithFirstNameHeader(headers) ==
  IF \E i \in DOMAIN headers : ToLowerCase(headers[i]) = "first name"
    THEN headers ELSE <<"First Name">> \o headers

WithLastNameHeader(headers) ==
  IF \E i \in DOMAIN headers : ToLowerCase(headers[i]) = "last name"
    THEN headers
    ELSE LET First(h) == ToLowerCase(h) = "first name"
         IN InsertAfter(headers, FirstIndex(headers, First), "Last Name")

NameSplitHeaders(headers, originalHeader) ==
  LET Other(h) == h # originalHeader
  IN SelectSeq(WithLastNameHeader(WithFirstNameHeader(headers)), Other)

\* the mappings after a name split
WithFirstNameMapping(filtered) ==
  IF \E i \in DOMAIN filtered : filtered[i].sourceHeader = "First Name"
    THEN filtered
    ELSE <<HeaderMapping("First Name", "First Name", FALSE)>> \o filtered

\* hasLastName is read before the First Name mapping is put in front
WithLastNameMapping(newMappings, hasLastName) ==
  IF hasLastName THEN newMappings
  ELSE LET First(m) == m.sourceHeader = "First Name"
       IN InsertAfter(newMappings, FirstIndex(newMappings, First),
                      HeaderMapping("Last Name", "Last Name", FALSE))

NameSplitMappingsOf(filtered) ==
  WithLastNameMapping(WithFirstNameMapping(filtered),
                      \E i \in DOMAIN filtered : filtered[i].sourceHeader = "Last Name")

NameSplitMappings(prev, originalHeader) ==
  LET Other(m) == m.sourceHeader # originalHeader
  IN NameSplitMappingsOf(SelectSeq(prev, Other))

handleNameSplitResolved ==
  /\ step = 2 /\ parsedFile # <<>> /\ nameSplitColumn # "" /\ ~resolved.nameSplitResolved
  /\ parsedFile' =
       [parsedFile EXCEPT !.rows = SplitRows(parsedFile.rows, nameSplitColumn),
                          !.headers = NameSplitHeaders(parsedFile.headers, nameSplitColumn)]
  /\ mappings' = NameSplitMappings(mappings, nameSplitColumn)
  /\ resolved' = [resolved EXCEPT !.nameSplitResolved = TRUE]
  /\ nameSplitColumn' = ""
  /\ step' = Settle(3, parsedFile', nameSplitColumn', addressComponents, resolved')
  /\ UNCHANGED <<cleanedData, cleaningStats, validations, duplicates, rowsToSkip,
                 addressesConsolidatedCount, originalMappings, hasBeenModified,
                 customFields, addressComponents, aiRequest,
                 exportFormat, offStage>>
  /\ NoDownload

\* the end of the match of /,\s*,+/ that starts at i, or i itself when
\* there is no match at i
CommaRunMatchEnd(s, i, afterSpaces) ==
  IF CharAt(s, i) = "," /\ afterSpaces <= Len(s) /\ CharAt(s, afterSpaces) = ","
    THEN RunEnd(s, afterSpaces, {","})
    ELSE i

\* combined.replace(/,\s*,+/g, ',')
RECURSIVE ReplaceCommaRuns(_, _)
ReplaceCommaRuns(s, i) ==
  IF i > Len(s) THEN ""
  ELSE CharAt(s, i)
         \o ReplaceCommaRuns(s, CommaRunMatchEnd(s, i, RunEnd(s, i + 1, Whitespace) + 1) + 1)

OneBlank(c) == IF c \in {"\t", " "} THEN " " ELSE c

\* combined.replace(/[\t ]+/g, ' ')
RECURSIVE ReplaceBlankRuns(_, _)
ReplaceBlankRuns(s, i) ==
  IF i > Len(s) THEN ""
  ELSE OneBlank(CharAt(s, i))
         \o ReplaceBlankRuns(s, (IF CharAt(s, i) \in {"\t", " "}
                                   THEN RunEnd(s, i, {"\t", " "}) ELSE i) + 1)

\* formatCombinedAddress of the AddressConsolidatorResolver, for a separator
\* without a line break
CommasCleaned(combined, sep) ==
  IF Includes(sep, ",") THEN ReplaceCommaRuns(combined, 1) ELSE combined

formatCombinedAddress(rawParts, sep) ==
  Trim(ReplaceBlankRuns(CommasCleaned(Join(SelectSeq(TrimAll(rawParts), NonEmpty), sep), sep), 1))

\* handleCombine: every component included, in ascending order
IncludedHeaders(components) ==
  LET sorted == SortByOrder(components)
  IN [i \in DOMAIN sorted |-> sorted[i].sourceHeader]

ConsolidatedRow(row, headers, sep) ==
  Put(row, "Address", formatCombinedAddress([i \in DOMAIN headers |-> Cell(row, headers[i])], sep))

ConsolidatedData(data, headers, sep) ==
  [i \in DOMAIN data |-> ConsolidatedRow(data[i], headers, sep)]

\* the headers and the mappings after an address consolidation
AddressHeadersOf(filteredHeaders) ==
  IF \E i \in DOMAIN filteredHeaders : ToLowerCase(filteredHeaders[i]) = "address"
    THEN [i \in DOMAIN filteredHeaders |->
            IF ToLowerCase(filteredHeaders[i]) = "address" THEN "Address" ELSE filteredHeaders[i]]
    ELSE Append(filteredHeaders, "Address")

AddressHeaders(headers, removeSet) ==
  LET Kept(h) == ToLowerCase(h) \notin removeSet
  IN AddressHeadersOf(SelectSeq(headers, Kept))

AddressMappingsOf(filtered) ==
  IF \E i \in DOMAIN filtered : ToLowerCase(filtered[i].sourceHeader) = "address"
    THEN [i \in DOMAIN filtered |->
            IF ToLowerCase(filtered[i].sourceHeader) = "address"
              THEN [filtered[i] EXCEPT !.sourceHeader = "Address", !.targetHeader = "Address"]
              ELSE filtered[i]]
    ELSE Append(filtered, HeaderMapping("Address", "Address", FALSE))

AddressMappings(prev, removeSet) ==
  LET Kept(m) == ToLowerCase(m.sourceHeader) \notin removeSet
  IN AddressMappingsOf(SelectSeq(prev, Kept))

\* onResolve of the AddressConsolidatorResolver
AddressResolved(consolidatedData, componentsToRemove) ==
  /\ parsedFile' =
       [parsedFile EXCEPT !.rows = consolidatedData,
                          !.headers = AddressHeaders(parsedFile.headers,
                                                     Range(LowerAll(componentsToRemove)))]
  /\ mappings' = AddressMappings(mappings, Range(LowerAll(componentsToRemove)))
  /\ resolved' = [resolved EXCEPT !.addressConsolidationResolved = TRUE]
  /\ addressesConsolidatedCount' = Len(consolidatedData)
  /\ step' = 4
  /\ UNCHANGED <<cleanedData, cleaningStats, validations, duplicates, rowsToSkip,
                 originalMappings, hasBeenModified, customFields, addressComponents,
                 nameSplitColumn, aiRequest, exportFormat, offStage>>
  /\ NoDownload

AddressConsolidationResolved ==
  /\ step = 3 /\ parsedFile # <<>>
  /\ Len(addressComponents) >= 2 /\ ~resolved.addressConsolidationResolved
  /\ AddressResolved(ConsolidatedData(parsedFile.rows, IncludedHeaders(addressComponents), ", "),
                     IncludedHeaders(addressComponents))

\* updateMapping of the hook
updateMapping(sourceHeader, newTarget, isCustom) ==
  /\ hasBeenModified' = TRUE
  /\ mappings' =
       [i \in DOMAIN mappings |->
          IF mappings[i].sourceHeader = sourceHeader
            THEN [mappings[i] EXCEPT !.targetHeader = newTarget, !.isCustom = isCustom]
            ELSE mappings[i]]

\* the columns the user edits at the mapping step, the standard targets the
\* user picks for them and the custom field names the user types
EditSources == {"E-mail 2"}
EditTargets == {""}
CustomNames == {"Pet"}

\* usedTargets of the MappingTable
UsedTargets(ms) == { ms[i].targetHeader : i \in DOMAIN ms } \ {""}

\* an entry of the Select of a row is disabled when another row uses it
Selectable(mapping, value) ==
  value = "" \/ ~(value \in UsedTargets(mappings) /\ mapping.targetHeader # value)

\* onValueChange of the Select of a mapping row: "unmapped", a standard
\* header or a custom field
SelectTarget ==
  /\ step = 4 /\ parsedFile # <<>>
  /\ \E i \in DOMAIN mappings, value \in EditTargets \cup Range(customFields) :
       /\ mappings[i].sourceHeader \in EditSources
       /\ value # mappings[i].targetHeader
       /\ Selectable(mappings[i], value)
       /\ updateMapping(mappings[i].sourceHeader, value, value \in Range(customFields))
  /\ UNCHANGED <<step, parsedFile, cleanedData, cleaningStats, validations, duplicates,
                 rowsToSkip, resolved, addressesConsolidatedCount, originalMappings,
                 customFields, addressComponents, nameSplitColumn, aiRequest,
                 exportFormat, offStage>>
  /\ NoDownload

\* addCustomField of the hook
addCustomField(fieldName) ==
  customFields' = IF fieldName \in Range(customFields)
                    THEN customFields ELSE Append(customFields, fieldName)

\* "+ Manual Mapping", a typed name and Apply: handleManualMappingSelect
\* clears the row's target, handleManualMappingConfirm adds the custom field
\* and maps the row to it
handleManualMappingConfirm(sourceHeader, customFieldName) ==
  /\ addCustomField(customFieldName)
  /\ updateMapping(sourceHeader, customFieldName, TRUE)

ManualMapping ==
  /\ step = 4 /\ parsedFile # <<>>
  /\ \E i \in DOMAIN mappings, name \in CustomNames :
       /\ mappings[i].sourceHeader \in EditSources
       /\ handleManualMappingConfirm(mappings[i].sourceHeader, name)
  /\ UNCHANGED <<step, parsedFile, cleanedData, cleaningStats, validations, duplicates,
                 rowsToSkip, resolved, addressesConsolidatedCount, originalMappings,
                 addressComponents, nameSplitColumn, aiRequest,
                 exportFormat, offStage>>
  /\ NoDownload

\* "Reset to AI suggestions", shown once the mappings were modified
resetToOriginal ==
  /\ step = 4 /\ parsedFile # <<>> /\ hasBeenModified
  /\ Len(originalMappings) > 0
  /\ mappings' = originalMappings
  /\ hasBeenModified' = FALSE
  /\ UNCHANGED <<step, parsedFile, cleanedData, cleaningStats, validations, duplicates,
                 rowsToSkip, resolved, addressesConsolidatedCount, originalMappings,
                 customFields, addressComponents, nameSplitColumn, aiRequest,
                 exportFormat, offStage>>
  /\ NoDownload

\* validations computed from the rows before the change
staleValidations(updatedData) == validateRows(cleanedData)

\* const newValidations = validateRows(updatedData)
newValidations(updatedData) == validateRows(updatedData)

\* the state handleProcess stores for a processData result
Processed(result) ==
  /\ cleanedData' = result.data
  /\ cleaningStats' =
       [result.stats EXCEPT !["addressesConsolidated"] = addressesConsolidatedCount]
  /\ validations' = newValidations(result.data)
  /\ duplicates' = detectDuplicates(result.data)

handleProcess ==
  /\ step = 4 /\ parsedFile # <<>>
  /\ Processed(processData(parsedFile.rows, mappings))
  /\ step' = 5
  /\ UNCHANGED <<parsedFile, rowsToSkip, resolved, addressesConsolidatedCount, mappings,
                 originalMappings, hasBeenModified, customFields, addressComponents,
                 nameSplitColumn, aiRequest, exportFormat, offStage>>
  /\ NoDownload

\* the indices a selector returns, without the rows to skip
Unskipped(indices) ==
  LET Kept(index) == index \notin rowsToSkip
  IN SelectSeq(indices, Kept)

\* rowsWithStatusIssues: missing and invalid statuses
StatusIssues(data) ==
  Range(Unskipped(getRowsWithMissingStatus(data)))
    \cup Range(Unskipped(getRowsWithInvalidStatus(data)))

\* the chain of step 5: the resolver on screen, or the summary and export view
Showing ==
  IF Len(duplicates) > 0 /\ ~resolved.duplicatesResolved THEN "duplicates"
  ELSE IF Unskipped(getRowsWithMissingTimezone(cleanedData)) # <<>>
            /\ ~resolved.timezonesResolved THEN "timezones"
  ELSE IF StatusIssues(cleanedData) # {} /\ ~resolved.statusResolved THEN "status"
  ELSE IF getRowsWithNameTooLong(cleanedData) # <<>>
            /\ ~resolved.nameLengthResolved THEN "nameLength"
  ELSE IF ~resolved.birthdayFormatResolved THEN "birthday"
  ELSE IF ~resolved.dataIssuesResolved THEN "dataIssues"
  ELSE "summary"

OnScreen(view) == step = 5 /\ cleaningStats # <<>> /\ Showing = view

\* cleanedData.filter((_, idx) => !indices.has(idx))
RowsOutside(data, indices) ==
  LET Kept(index) == index \notin indices
      kept == SelectSeq([i \in DOMAIN data |-> i - 1], Kept)
  IN [k \in DOMAIN kept |-> data[kept[k] + 1]]

\* { ...prev, counter: prev.counter + n, ... } when the handler counted
\* something (n is not 0) and the stats exist
StatsPlus(stats, counters, n) ==
  IF n # 0 /\ stats # <<>>
    THEN [c \in DOMAIN stats |-> IF c \in counters THEN stats[c] + n ELSE stats[c]]
    ELSE stats

\* a resolver that keeps no row of a group
AllGroupRows(groups, choices) ==
  UNION { Range(groups[g].rowIndices) : g \in DOMAIN groups }

\* handleRemoveAllSelected of the DuplicateResolver: every row of a group but
\* the one chosen to keep
handleRemoveAllSelected(groups, choices) ==
  UNION { Range(groups[g].rowIndices) \ {choices[g]} : g \in DOMAIN groups }

\* the choices of the DuplicateResolver: the row to keep of each group, the
\* group's first by default
KeepChoices(groups) ==
  { choices \in [DOMAIN groups -> AllGroupRows(groups, <<>>)] :
      \A g \in DOMAIN groups : choices[g] \in Range(groups[g].rowIndices) }

\* totalRows: prev.totalRows - indicesToRemove.size
DuplicatesRemoved(filteredData, rowsDelta) ==
  /\ cleanedData' = filteredData
  /\ duplicates' = <<>>
  /\ resolved' = [resolved EXCEPT !.duplicatesResolved = TRUE]
  /\ cleaningStats' = StatsPlus(cleaningStats, {"totalRows"}, rowsDelta)
  /\ validations' = newValidations(filteredData)

handleDuplicatesResolved(indicesToRemove) ==
  /\ OnScreen("duplicates")
  /\ DuplicatesRemoved(RowsOutside(cleanedData, indicesToRemove), 0 - Cardinality(indicesToRemove))
  /\ UNCHANGED <<step, parsedFile, rowsToSkip, addressesConsolidatedCount, mappings,
                 originalMappings, hasBeenModified, customFields, addressComponents,
                 nameSplitColumn, aiRequest, exportFormat, offStage>>
  /\ NoDownload

DuplicatesResolved ==
  \E choices \in KeepChoices(duplicates) :
    handleDuplicatesResolved(handleRemoveAllSelected(duplicates, choices))

\* a handler that only sets its flag
FlagSet(view, flag) ==
  /\ OnScreen(view)
  /\ resolved' = [resolved EXCEPT ![flag] = TRUE]
  /\ UNCHANGED <<step, parsedFile, cleanedData, cleaningStats, validations, duplicates,
                 rowsToSkip, addressesConsolidatedCount, mappings, originalMappings,
                 hasBeenModified, customFields, addressComponents, nameSplitColumn,
                 aiRequest, exportFormat, offStage>>
  /\ NoDownload

handleDuplicatesSkipped == FlagSet("duplicates", "duplicatesResolved")

\* cleanedData.map((row, idx) => assignments.has(idx) ? { ...row, [header]: ... } : row)
Assigned(data, header, assignments) ==
  [i \in DOMAIN data |->
     IF (i - 1) \in DOMAIN assignments
       THEN Put(data[i], header, assignments[i - 1]) ELSE data[i]]

\* the state a resolver with assignments stores
AssignmentsApplied(updatedData, flag, counters, n) ==
  /\ cleanedData' = updatedData
  /\ resolved' = [resolved EXCEPT ![flag] = TRUE]
  /\ cleaningStats' = StatsPlus(cleaningStats, counters, n)
  /\ validations' = newValidations(updatedData)
  /\ UNCHANGED <<step, parsedFile, duplicates, rowsToSkip, addressesConsolidatedCount,
                 mappings, originalMappings, hasBeenModified, customFields,
                 addressComponents, nameSplitColumn, aiRequest,
                 exportFormat, offStage>>
  /\ NoDownload

handleTimezonesResolved(timezoneAssignments) ==
  /\ OnScreen("timezones")
  /\ AssignmentsApplied(Assigned(cleanedData, "Time Zone", timezoneAssignments),
                        "timezonesResolved", {"timeZoneValidated", "totalCellsModified"},
                        Cardinality(DOMAIN timezoneAssignments))

\* the TimezoneResolver gives every listed row one zone
TimezonesResolved ==
  handleTimezonesResolved(
    [index \in Range(Unskipped(getRowsWithMissingTimezone(cleanedData))) |->
       "Eastern Time (US & Canada)"])

handleStatusResolved(statusAssignments) ==
  /\ OnScreen("status")
  /\ AssignmentsApplied(Assigned(cleanedData, "Status", statusAssignments),
                        "statusResolved", {"statusValidated", "totalCellsModified"},
                        Cardinality(DOMAIN statusAssignments))

\* the StatusResolver gives every listed row one status
StatusResolved ==
  handleStatusResolved([index \in StatusIssues(cleanedData) |-> "Lead"])

handleSkipAllLongNames ==
  /\ OnScreen("nameLength")
  /\ rowsToSkip' = Range(getRowsWithNameTooLong(cleanedData))
  /\ resolved' = [resolved EXCEPT !.nameLengthResolved = TRUE]
  /\ UNCHANGED <<step, parsedFile, cleanedData, cleaningStats, validations, duplicates,
                 addressesConsolidatedCount, mappings, originalMappings,
                 hasBeenModified, customFields, addressComponents, nameSplitColumn,
                 aiRequest, exportFormat, offStage>>
  /\ NoDownload

\* an update of the NameLengthResolver has a firstName, a lastName or both
Updated(row, update, key, header) ==
  IF key \in DOMAIN update THEN update[key] ELSE Cell(row, header)

Changed(row, update, key, header) ==
  IF key \in DOMAIN update /\ update[key] # Cell(row, header) THEN 1 ELSE 0

RECURSIVE ChangeCount(_, _, _, _, _)
ChangeCount(data, updates, key, header, i) ==
  IF i > Len(data) THEN 0
  ELSE (IF (i - 1) \in DOMAIN updates
          THEN Changed(data[i], updates[i - 1], key, header) ELSE 0)
         + ChangeCount(data, updates, key, header, i + 1)

NamesUpdated(data, updates) ==
  [i \in DOMAIN data |->
     IF (i - 1) \in DOMAIN updates
       THEN Put(Put(data[i], "First Name",
                    Updated(data[i], updates[i - 1], "firstName", "First Name")),
                "Last Name", Updated(data[i], updates[i - 1], "lastName", "Last Name"))
       ELSE data[i]]

NamesApplied(updatedData, skippedRows, namesChanged) ==
  /\ rowsToSkip' = skippedRows
  /\ cleanedData' = updatedData
  /\ resolved' = [resolved EXCEPT !.nameLengthResolved = TRUE]
  /\ cleaningStats' =
       StatsPlus(cleaningStats, {"namesToProperCase", "totalCellsModified"}, namesChanged)
  /\ validations' = newValidations(updatedData)
  /\ UNCHANGED <<step, parsedFile, duplicates, addressesConsolidatedCount,
                 mappings, originalMappings, hasBeenModified, customFields,
                 addressComponents, nameSplitColumn, aiRequest,
                 exportFormat, offStage>>
  /\ NoDownload

handleNameLengthResolved(updates, skippedRows) ==
  /\ OnScreen("nameLength")
  /\ NamesApplied(NamesUpdated(cleanedData, updates), skippedRows,
                  ChangeCount(cleanedData, updates, "firstName", "First Name", 1)
                    + ChangeCount(cleanedData, updates, "lastName", "Last Name", 1))

\* the NameLengthResolver shortens the first name of every listed row
NameLengthResolved ==
  handleNameLengthResolved(
    [index \in Range(getRowsWithNameTooLong(cleanedData)) |-> [firstName |-> "Max"]], {})

\* birthdaysChanged: the rows whose Birthday was there and was rewritten
RECURSIVE BirthdaysChanged(_, _, _)
BirthdaysChanged(data, reformattedData, i) ==
  IF i > Len(data) THEN 0
  ELSE (IF /\ Cell(data[i], "Birthday") # ""
           /\ Cell(reformattedData[i], "Birthday") # ""
           /\ Cell(data[i], "Birthday") # Cell(reformattedData[i], "Birthday")
          THEN 1 ELSE 0)
         + BirthdaysChanged(data, reformattedData, i + 1)

\* the state handleBirthdayFormatResolved stores; the validations are not
\* touched
BirthdaysApplied(reformattedData) ==
  /\ cleanedData' = reformattedData
  /\ resolved' = [resolved EXCEPT !.birthdayFormatResolved = TRUE]
  /\ cleaningStats' =
       StatsPlus(cleaningStats, {"birthdayFormatted", "totalCellsModified"},
                 BirthdaysChanged(cleanedData, reformattedData, 1))
  /\ UNCHANGED <<step, parsedFile, validations, duplicates, rowsToSkip,
                 addressesConsolidatedCount, mappings, originalMappings,
                 hasBeenModified, customFields, addressComponents, nameSplitColumn,
                 aiRequest, exportFormat, offStage>>
  /\ NoDownload

handleBirthdayFormatResolved(format) ==
  /\ OnScreen("birthday")
  /\ BirthdaysApplied(reformatBirthdays(cleanedData, format))

\* the format the user picks in the BirthdayFormatResolver
PickedFormats == {"DD/MM/YYYY"}

BirthdayFormatResolved ==
  \E format \in PickedFormats : handleBirthdayFormatResolved(format)

handleBirthdayFormatSkipped == FlagSet("birthday", "birthdayFormatResolved")

\* an update of the DataIssuesResolver has an email, a phone or both
IssuesUpdated(data, updates) ==
  [i \in DOMAIN data |->
     IF (i - 1) \in DOMAIN updates
       THEN Put(Put(data[i], "Email", Updated(data[i], updates[i - 1], "email", "Email")),
                "Phone", Updated(data[i], updates[i - 1], "phone", "Phone"))
       ELSE data[i]]

IssuesApplied(updatedData, emailsChanged, phonesChanged) ==
  /\ cleanedData' = updatedData
  /\ resolved' = [resolved EXCEPT !.dataIssuesResolved = TRUE]
  /\ cleaningStats' =
       StatsPlus(StatsPlus(StatsPlus(cleaningStats, {"emailsCleaned"}, emailsChanged),
                           {"phonesNormalized"}, phonesChanged),
                 {"totalCellsModified"}, emailsChanged + phonesChanged)
  /\ validations' = newValidations(updatedData)
  /\ UNCHANGED <<step, parsedFile, duplicates, rowsToSkip, addressesConsolidatedCount,
                 mappings, originalMappings, hasBeenModified, customFields,
                 addressComponents, nameSplitColumn, aiRequest,
                 exportFormat, offStage>>
  /\ NoDownload

\* with no update the handler only sets its flag
handleDataIssuesResolved(updates) ==
  IF DOMAIN updates = {}
    THEN FlagSet("dataIssues", "dataIssuesResolved")
    ELSE /\ OnScreen("dataIssues")
         /\ IssuesApplied(IssuesUpdated(cleanedData, updates),
                          ChangeCount(cleanedData, updates, "email", "Email", 1),
                          ChangeCount(cleanedData, updates, "phone", "Phone", 1))

\* findMissingEmails: the rows the DataIssuesResolver lists (no phone is
\* imported by the harness, so it lists no phone duplicate)
findMissingEmails(data) ==
  {i - 1 : i \in {k \in DOMAIN data : Trimmed(data[k], "Email") = ""}}

\* the DataIssuesResolver hands over no edit, or the email typed for one of
\* the rows it lists
TypedEmails == {"bo@x.co"}

IssueUpdates ==
  {<<>>} \cup {[index \in {i} |-> [email |-> typed]] :
                i \in findMissingEmails(cleanedData), typed \in TypedEmails}

DataIssuesResolved == \E updates \in IssueUpdates : handleDataIssuesResolved(updates)

handleDataIssuesSkipped == FlagSet("dataIssues", "dataIssuesResolved")

\* the state handleDataChange stores
DataChanged(updatedData) ==
  /\ cleanedData' = updatedData
  /\ validations' = newValidations(updatedData)
  /\ duplicates' = detectDuplicates(updatedData)
  /\ UNCHANGED <<step, parsedFile, cleaningStats, rowsToSkip, resolved,
                 addressesConsolidatedCount, mappings, originalMappings,
                 hasBeenModified, customFields, addressComponents, nameSplitColumn,
                 aiRequest, exportFormat, offStage>>
  /\ NoDownload

handleDataChange(updatedData) ==
  /\ OnScreen("summary")
  /\ DataChanged(updatedData)

\* saveEdit of the DataPreview: one cell of one row replaced; the user
\* blanks the First Name of the first row
CellEdits == {<<0, "First Name", "">>}

DataChange ==
  \E edit \in CellEdits :
    /\ edit[1] < Len(cleanedData)
    /\ Cell(cleanedData[edit[1] + 1], edit[2]) # edit[3]
    /\ handleDataChange([cleanedData EXCEPT ![edit[1] + 1] = Put(@, edit[2], edit[3])])

\* the File Format select of the export options
setExportFormat ==
  /\ OnScreen("summary")
  /\ \E v \in {"xlsx", "csv"} : v # exportFormat /\ exportFormat' = v
  /\ UNCHANGED <<step, parsedFile, cleanedData, cleaningStats, validations, duplicates,
                 rowsToSkip, resolved, addressesConsolidatedCount, mappings,
                 originalMappings, hasBeenModified, customFields, addressComponents,
                 nameSplitColumn, aiRequest, offStage>>
  /\ NoDownload

\* a download that leaves the custom fields out
StandardHeadersOnly(custom) == TARGET_HEADERS

\* const headers = [...TARGET_HEADERS, ...customFields]
DownloadHeaders(custom) == TARGET_HEADERS \o custom

\* the file a download writes for the rows that are not skipped
Downloaded(data, headers) ==
  /\ exportData' = data
  /\ exported' = <<IF exportFormat = "xlsx"
                     THEN generateExcel(data, headers) ELSE generateCSV(data, headers)>>

handleDownload ==
  /\ OnScreen("summary")
  /\ Len(cleanedData) # 0
  /\ Len(RowsOutside(cleanedData, rowsToSkip)) # 0
  /\ Downloaded(RowsOutside(cleanedData, rowsToSkip), DownloadHeaders(customFields))
  /\ UNCHANGED <<step, parsedFile, cleanedData, cleaningStats, validations, duplicates,
                 rowsToSkip, resolved, addressesConsolidatedCount, mappings,
                 originalMappings, hasBeenModified, customFields, addressComponents,
                 nameSplitColumn, aiRequest, exportFormat, offStage>>

\* Start Over
handleReset ==
  /\ step > 1
  /\ step' = 1
  /\ parsedFile' = <<>>
  /\ cleanedData' = <<>>
  /\ cleaningStats' = <<>>
  /\ validations' = <<>>
  /\ duplicates' = <<>>
  /\ exportFormat' = "xlsx"
  /\ resolved' = NoneResolved
  /\ rowsToSkip' = {}
  /\ addressComponents' = <<>>
  /\ nameSplitColumn' = ""
  /\ UNCHANGED <<addressesConsolidatedCount, mappings, originalMappings,
                 hasBeenModified, customFields, aiRequest, offStage>>
  /\ NoDownload

InitWizard ==
  /\ step = 1 /\ parsedFile = <<>> /\ cleanedData = <<>> /\ cleaningStats = <<>>
  /\ validations = <<>> /\ duplicates = <<>> /\ rowsToSkip = {}
  /\ resolved = NoneResolved /\ addressesConsolidatedCount = 0
  /\ exportFormat = "xlsx"
  /\ mappings = <<>> /\ originalMappings = <<>> /\ hasBeenModified = FALSE
  /\ customFields = <<>> /\ addressComponents = <<>> /\ nameSplitColumn = ""
  /\ aiRequest = <<>> /\ exportData = <<>> /\ exported = <<>>
  /\ rows = <<>> /\ processed = <<>> /\ dataRows = <<>> /\ warnings = <<>>
  /\ selected = <<>>
  /\ IdleCell /\ IdleSplit /\ IdleBirthday /\ IdleAddress /\ IdleRate

NextWizard ==
  \/ FileSelect
  \/ Back
  \/ handleNameSplitResolved
  \/ AddressConsolidationResolved
  \/ SelectTarget
  \/ ManualMapping
  \/ resetToOriginal
  \/ handleProcess
  \/ DuplicatesResolved
  \/ handleDuplicatesSkipped
  \/ TimezonesResolved
  \/ StatusResolved
  \/ NameLengthResolved
  \/ handleSkipAllLongNames
  \/ BirthdayFormatResolved
  \/ handleBirthdayFormatSkipped
  \/ DataIssuesResolved
  \/ handleDataIssuesSkipped
  \/ DataChange
  \/ setExportFormat
  \/ handleDownload
  \/ handleReset

SpecWizard == InitWizard /\ [][NextWizard]_vars


C14_ValidationsFresh == validations = validateRows(cleanedData)

\* the birthdays were rewritten, the one handler that stores rows without
\* calling validateRows, and the rows have issues to report
C14_Witness ==
  /\ step = 5
  /\ resolved.birthdayFormatResolved
  /\ cleaningStats # <<>>
  /\ cleaningStats["birthdayFormatted"] > 0
  /\ Len(validations) > 0
  /\ validations = validateRows(cleanedData)


\* C15: Start Over resets all state: whenever the wizard is at the upload
\* step without a parsed file, which is so at the start and after
\* handleReset only, every piece of wizard state has its initial value,
\* the header-mapping state (mappings, stored AI suggestions, modified mark,
\* custom fields) and the consolidated-address count included.
C15_ResetRestoresInitial ==
  (step = 1 /\ parsedFile = <<>>) =>
    /\ cleanedData = <<>> /\ cleaningStats = <<>> /\ validations = <<>>
    /\ duplicates = <<>> /\ rowsToSkip = {} /\ resolved = NoneResolved
    /\ exportFormat = "xlsx"
    /\ addressComponents = <<>> /\ nameSplitColumn = ""
    /\ mappings = <<>> /\ originalMappings = <<>> /\ ~hasBeenModified
    /\ customFields = <<>>
    /\ addressesConsolidatedCount = 0


\* C16: only column headers are sent to the AI mapping function: the body
\* of the request an upload sends has the file's header list and the fixed
\* target headers and nothing else, so it is the request of every file with
\* the same headers, whatever its rows hold.
C16_OnlyHeadersSent ==
  [][(step = 1 /\ step' # 1) =>
       /\ aiRequest' = <<[sourceHeaders |-> parsedFile'.headers,
                          targetHeaders |-> TARGET_HEADERS]>>
       /\ \A other \in WizardFiles :
            other.headers = parsedFile'.headers => aiRequest' = <<FileRequest(other)>>]_vars

\* b.csv was uploaded after an import of a.csv, which left its two
\* consolidated addresses behind, and the request is the one of a.csv
C16_Witness ==
  /\ parsedFile # <<>>
  /\ parsedFile.fileName = "b.csv"
  /\ ~resolved.nameSplitResolved
  /\ addressesConsolidatedCount = 2
  /\ \E other \in WizardFiles :
       /\ other.fileName = "a.csv"
       /\ other.rows # parsedFile.rows
       /\ aiRequest = <<FileRequest(other)>>


\* C18: the mapping handed to processData has at most one source per
\* target: once handleProcess has run, no two of the mappings it handed over
\* have the same non-null targetHeader.
C18_OneSourcePerTarget ==
  step = 5 =>
    \A i \in DOMAIN mappings, j \in DOMAIN mappings :
      (i # j /\ mappings[i].targetHeader # "") =>
        mappings[i].targetHeader # mappings[j].targetHeader


\* C21: consolidateAddress is a pure function of its explicit inputs: a
\* call leaves the row and the caller's components array as they were, same
\* elements in the same positions, and a second call with the same
\* arguments returns the same string.
C21_ConsolidatePure ==
  [][/\ addressRow' = addressRow
     /\ addressParts' = addressParts
     /\ Len(addressOut') = 2 => addressOut'[2] = addressOut'[1]]_vars


LowerPrefixes == Range(LowerAll(NAME_PREFIXES))
LowerSuffixes == Range(LowerAll(NAME_SUFFIXES))

\* the tokens of a name without one leading prefix token
WithoutPrefix(tokens) ==
  IF tokens # <<>> /\ ToLowerCase(tokens[1]) \in LowerPrefixes THEN Tail(tokens) ELSE tokens

\* and then without one trailing suffix token
WithoutSuffix(tokens) ==
  IF tokens # <<>> /\ ToLowerCase(tokens[Len(tokens)]) \in LowerSuffixes
    THEN SubSeq(tokens, 1, Len(tokens) - 1) ELSE tokens

\* a single letter, optionally followed by a period
MiddleInitial(token) ==
  \/ Len(token) = 1 /\ token \in Letters
  \/ Len(token) = 2 /\ CharAt(token, 1) \in Letters /\ CharAt(token, 2) = "."

\* C23: splitFullName strips at most one leading prefix token and then at
\* most one trailing suffix token and assigns by the number of tokens left:
\* none gives two empty names; 1 gives first = t0; 2 gives first = t0,
\* last = t1; 3 gives first = t0 and last = t2 when t1 is a single letter
\* optionally followed by a period, otherwise last = t1 t2; 4 or more gives
\* first = t0 t1 and last = the other tokens joined by spaces.
C23_SplitByTokenCount ==
  Len(splitOut) = 1 =>
    LET t == WithoutSuffix(WithoutPrefix(
               SelectSeq(SplitOnRuns(Trim(fullName), Whitespace), NonEmpty)))
        out == splitOut[1]
    IN CASE Len(t) = 0 -> out.firstName = "" /\ out.lastName = ""
         [] Len(t) = 1 -> out.firstName = t[1] /\ out.lastName = ""
         [] Len(t) = 2 -> out.firstName = t[1] /\ out.lastName = t[2]
         [] Len(t) = 3 ->
              /\ out.firstName = t[1]
              /\ out.lastName = IF MiddleInitial(t[2]) THEN t[3] ELSE t[2] \o " " \o t[3]
         [] OTHER ->
              /\ out.firstName = t[1] \o " " \o t[2]
              /\ out.lastName = Join(SubSeq(t, 3, Len(t)), " ")


\* the record of a row whose First Name is in order
WithGoodFirstName(row, index) == RowValidation(Put(row, "First Name", "Al"), index)

\* C24: in every record validateRows returns, firstNameRequired and
\* firstNameTooLong are never both true and missingTimeZone and
\* invalidTimeZone are never both true, and the other checks do not depend
\* on the First Name: the record has the other flags and the other missing
\* fields of the same row with a valid First Name, so a row with a trimmed
\* First Name of more than 26 characters and an empty Email has
\* firstNameTooLong, "Email" among its missing fields and no
\* firstNameRequired.
C24_FlagsExclusiveAndIndependent ==
  warnings # <<>> =>
    \A k \in DOMAIN warnings[1] :
      LET v == warnings[1][k]
          row == dataRows[v.rowIndex + 1]
          other == WithGoodFirstName(row, v.rowIndex)
          NotFirstName(field) == field # "First Name"
      IN /\ ~(v.firstNameRequired /\ v.firstNameTooLong)
         /\ ~(v.missingTimeZone /\ v.invalidTimeZone)
         /\ SelectSeq(v.missingFields, NotFirstName) = other.missingFields
         /\ \A flag \in {"invalidEmail", "invalidStatus", "invalidTimeZone",
                          "missingTimeZone", "lastNameTooLong"} : v[flag] = other[flag]
         /\ (Len(Trim(Cell(row, "First Name"))) > 26 /\ Trim(Cell(row, "Email")) = "") =>
              /\ v.firstNameTooLong
              /\ "Email" \in Range(v.missingFields)
              /\ ~v.firstNameRequired

\* a First Name of 30 characters and no Email in one row
C24_Witness ==
  /\ warnings # <<>>
  /\ \E k \in DOMAIN warnings[1] :
       LET v == warnings[1][k]
           row == dataRows[v.rowIndex + 1]
       IN /\ Len(Trim(Cell(row, "First Name"))) = 30
          /\ Cell(row, "Email") = ""
          /\ v.firstNameTooLong /\ ~v.firstNameRequired
          /\ v.missingFields = <<"Email">>


\* the resolver's Remove button was pressed in this step
DuplicatesConfirmed ==
  /\ OnScreen("duplicates")
  /\ resolved'.duplicatesResolved
  /\ cleanedData' # cleanedData

RATE_LIMIT == 10
RATE_WINDOW_MS == 60000

MaxWindows == 2    \* the clock stops after this many windows
MaxCount == 12     \* requests counted per entry before the harness stops asking

XForwardedFor == {"", " 10.0.0.1 , 10.0.0.9"}
CfConnectingIp == {"10.0.0.2"}
ClockSteps == {RATE_WINDOW_MS, RATE_WINDOW_MS + 1}

\* Map.set(ip, entry)
MapSet(map, ip, entry) ==
  [k \in DOMAIN map \cup {ip} |-> IF k = ip THEN entry ELSE map[k]]

\* !entry || now > entry.resetAt, at the old boundary: the variant used to
\* test the window rule
WindowOverAtReset(map, ip, now) ==
  ip \notin DOMAIN map \/ now >= map[ip].resetAt

\* !entry || now > entry.resetAt
WindowOver(map, ip, now) ==
  ip \notin DOMAIN map \/ now > map[ip].resetAt

\* checkRateLimit: the map it leaves behind
MapAfterCheck(map, ip, now) ==
  IF WindowOver(map, ip, now)
    THEN MapSet(map, ip, [count |-> 1, resetAt |-> now + RATE_WINDOW_MS])
    ELSE MapSet(map, ip, [count |-> map[ip].count + 1, resetAt |-> map[ip].resetAt])

\* checkRateLimit: its return value
checkRateLimit(map, ip, now) ==
  IF WindowOver(map, ip, now) THEN TRUE
  ELSE map[ip].count + 1 <= RATE_LIMIT

\* req.headers.get("x-forwarded-for")?.split(",")[0]?.trim()
\*   || req.headers.get("cf-connecting-ip") || "unknown"
ClientIp(forwarded, connecting) ==
  LET first == Trim(SplitOn(forwarded, {","})[1])
  IN IF first # "" THEN first
     ELSE IF connecting # "" THEN connecting
     ELSE "unknown"

\* serve: the key check comes first and answers 401 without touching the
\* limiter; a limited request is answered 429; 200 stands for a request
\* that went on to body validation
serve(authorized, forwarded, connecting) ==
  LET ip == ClientIp(forwarded, connecting)
  IN IF ~authorized
       THEN /\ rateOut' = <<[ip |-> "", status |-> 401]>>
            /\ UNCHANGED rateLimitMap
       ELSE /\ ip \in DOMAIN rateLimitMap => rateLimitMap[ip].count < MaxCount
            /\ rateLimitMap' = MapAfterCheck(rateLimitMap, ip, clock)
            /\ rateOut' = <<[ip |-> ip,
                             status |-> IF checkRateLimit(rateLimitMap, ip, clock)
                                          THEN 200 ELSE 429]>>

Request ==
  /\ \E authorized \in BOOLEAN, forwarded \in XForwardedFor,
        connecting \in CfConnectingIp :
       serve(authorized, forwarded, connecting)
  /\ UNCHANGED <<clock, cellVars, splitVars, processVars, validateVars, exportVars, birthdayVars, addressVars, wizardVars>>

TimePasses ==
  /\ \E ms \in ClockSteps :
       /\ clock + ms <= MaxWindows * (RATE_WINDOW_MS + 1)
       /\ clock' = clock + ms
  /\ UNCHANGED <<rateLimitMap, rateOut, cellVars, splitVars, processVars, validateVars, exportVars, birthdayVars, addressVars, wizardVars>>

InitRateLimit ==
  /\ clock = 0 /\ rateLimitMap = <<>> /\ rateOut = <<>>
  /\ IdleCell /\ IdleSplit /\ IdleProcess /\ IdleValidate /\ IdleExport
  /\ IdleBirthday /\ IdleAddress /\ IdleWizard

NextRateLimit == Request \/ TimePasses

SpecRateLimit == InitRateLimit /\ [][NextRateLimit]_vars

\* the limiter counted a request of this key in the step
Counted(ip) ==
  /\ ip \in DOMAIN rateLimitMap'
  /\ ip \notin DOMAIN rateLimitMap \/ rateLimitMap'[ip] # rateLimitMap[ip]

\* the key has a window that has not passed yet
WindowOpen(ip) == ip \in DOMAIN rateLimitMap /\ clock <= rateLimitMap[ip].resetAt

\* C26: each key has its own fixed window of RATE_WINDOW_MS: the request
\* that finds no window, or arrives after resetAt, opens one with count 1
\* and passes; a request inside the window is the (count + 1)-th of it,
\* leaves resetAt alone, and passes exactly when it is one of the first
\* RATE_LIMIT; no other key's entry changes.
C26_TenPerWindowPerIp ==
  [][\A ip \in DOMAIN rateLimitMap' : Counted(ip) =>
       LET nth == IF WindowOpen(ip) THEN rateLimitMap[ip].count + 1 ELSE 1
       IN /\ rateOut'[1].ip = ip
          /\ rateOut'[1].status = (IF nth <= 10 THEN 200 ELSE 429)
          /\ rateLimitMap'[ip].count = nth
          /\ rateLimitMap'[ip].resetAt =
               (IF WindowOpen(ip) THEN rateLimitMap[ip].resetAt ELSE clock + 60000)
          /\ \A other \in DOMAIN rateLimitMap \ {ip} :
               rateLimitMap'[other] = rateLimitMap[other]]_vars

\* the 11th request of a key's second window, arriving exactly at resetAt,
\* was refused while another key is still inside its limit
C26_Witness ==
  /\ rateOut = <<[ip |-> "10.0.0.1", status |-> 429]>>
  /\ rateLimitMap["10.0.0.1"].count = 11
  /\ rateLimitMap["10.0.0.1"].resetAt > RATE_WINDOW_MS
  /\ clock = rateLimitMap["10.0.0.1"].resetAt
  /\ "10.0.0.2" \in DOMAIN rateLimitMap
  /\ rateLimitMap["10.0.0.2"].count <= RATE_LIMIT

\* C22: every row a download writes has a trimmed First Name and a
\* trimmed Last Name of at most MAX_NAME_LENGTH (26) characters.
C22_NoLongNameExported ==
  exported # <<>> =>
    \A i \in DOMAIN exportData :
      /\ Len(Trimmed(exportData[i], "First Name")) <= 26
      /\ Len(Trimmed(exportData[i], "Last Name")) <= 26

\* C27: while the summary and export view is shown, the stored duplicate
\* groups are those of the current rows, or the empty list that resolving
\* the groups left behind.
C27_DuplicatesNeverStale ==
  OnScreen("summary") =>
    \/ duplicates = detectDuplicates(cleanedData)
    \/ duplicates = <<>> /\ resolved.duplicatesResolved

\* C28: every Process Data run leaves an empty rowsToSkip and the six
\* flags of the step-5 resolver chain false.
C28_ProcessStartsFresh ==
  [][handleProcess =>
       /\ rowsToSkip' = {}
       /\ ~resolved'.duplicatesResolved
       /\ ~resolved'.timezonesResolved
       /\ ~resolved'.statusResolved
       /\ ~resolved'.nameLengthResolved
       /\ ~resolved'.birthdayFormatResolved
       /\ ~resolved'.dataIssuesResolved]_vars

\* C29: whenever Process Data can be pressed, every mapping with a target
\* names a column of the current parsed file, and each column that the
\* name split or the address consolidation created (First Name, Last Name,
\* Address) is mapped to the target of the same name.
C29_MappingsFollowColumns ==
  step = 4 /\ parsedFile # <<>> =>
    /\ \A i \in DOMAIN mappings :
         mappings[i].targetHeader # "" =>
           mappings[i].sourceHeader \in Range(parsedFile.headers)
    /\ \A created \in {"First Name", "Last Name", "Address"} \cap Range(parsedFile.headers) :
         \E i \in DOMAIN mappings :
           /\ mappings[i].sourceHeader = created
           /\ mappings[i].targetHeader = created

\* C30: a Birthday the cleaner rewrote (the raw value parsed) is rendered
\* MM/DD/YYYY with a month between 01 and 12 and a day between 01 and 31.
C30_BirthdayInRange ==
  (cellField = "Birthday" /\ cellOut # <<>> /\ parseBirthday(cellRaw).ok) =>
    LET out == cellOut[1].value
    IN /\ Len(out) = 10
       /\ ParseInt(SubSeq(out, 1, 2)) \in 1..12
       /\ ParseInt(SubSeq(out, 4, 5)) \in 1..31

====
